---- MODULE Spec2Model ----
(***************************************************************************)
(* stitchcheck: the deterministic pattern-analysis pipeline.               *)
(*                                                                         *)
(*   parse_pattern   (backend/parser/pattern_parser.py)                    *)
(*   validate_pattern (backend/validator/stitch_counter.py)                *)
(*   Operation / RepeatBlock / Row / Pattern (backend/models/pattern.py)   *)
(*                                                                         *)
(* The specifications share the variables:                                 *)
(*   Spec      _run_pipeline(text, use_llm=False): parse_pattern over the  *)
(*             lines of a document, then validate_pattern.                 *)
(*   SpecEval  validate_pattern called on a Pattern whose rows carry the   *)
(*             attributes the evaluator reads (cast_on_extra, line_number).*)
(*   SpecDoc   the same with the Pattern's document, one line of which may *)
(*             assert a stitch count.                                      *)
(*   SpecCall  one function of the tokenizer, the LLM merge or the         *)
(*             evaluator called on its own on arguments from bounded sets. *)
(***************************************************************************)
EXTENDS Integers, Sequences, FiniteSets, TLC

VARIABLES
    pc,               \* position of the pipeline
    lines,            \* text.split("\n") of the document handed to parse_pattern
    i,                \* parse_pattern's line index
    current_section,  \* index into pattern.sections of parse_pattern's current_section
    pattern,          \* the Pattern object
    arg,              \* the Pattern as it was when validate_pattern was called; the
                      \* arguments of the call when one function is called on its own
    ret               \* the value a function called on its own returns

vars == <<pc, lines, i, current_section, pattern, arg, ret>>

\* Optional[int] = None.  Every Optional[int] field of the model holds a value >= 0 when set.
None == -1

\* max(a, b) letting a through unclamped
MaxFirst(a, b) == a

Max(a, b) == IF a >= b THEN a ELSE b

\* {} : a dict with no keys
EmptyDict == [k \in {} |-> 0]

\* d[k] = v on a copy of d
Put(d, k, v) == [y \in DOMAIN d \cup {k} |-> IF y = k THEN v ELSE d[y]]

\* d.get(k, default)
Get(d, k, default) == IF k \in DOMAIN d THEN d[k] ELSE default

\* the set of elements of a list
Elems(s) == {s[k] : k \in DOMAIN s}

(***************************************************************************)
(* models/pattern.py and parser/stitch_parser.py: operations               *)
(***************************************************************************)

\* STITCH_EFFECTS.get(op_str, 0)
STITCH_EFFECTS(op_str) ==
    CASE op_str \in {"k", "p", "sl", "sl1", "wyif", "wyib", "work_even"} -> 0
      [] op_str \in {"k2tog", "ssk", "p2tog", "ssp", "bo"} -> -1
      [] op_str \in {"sk2p", "s2kp", "k3tog", "p3tog", "cdd"} -> -2
      [] op_str \in {"yo", "m1", "m1l", "m1r", "m1p", "kfb", "pfb", "kll", "krl"} -> 1
      [] OTHER -> 0

\* _op_type_from_str: the OperationType (by its value) of an op string
_op_type_from_str(s) ==
    CASE s \in {"k", "p", "k2tog", "ssk", "p2tog", "ssp", "sk2p", "s2kp", "k3tog",
                "p3tog", "yo", "m1", "m1l", "m1r", "kfb", "bo", "co"} -> s
      [] s \in {"sl", "sl1", "sm", "pm"} -> "sl"
      [] s = "cdd" -> "sk2p"
      [] s = "m1p" -> "m1"
      [] s = "pfb" -> "kfb"
      [] OTHER -> "unknown"

\* _stitches_consumed_per_one
_stitches_consumed_per_one(op_str) ==
    CASE op_str \in {"yo", "m1", "m1l", "m1r", "m1p", "sm", "pm"} -> 0
      [] op_str \in {"k2tog", "ssk", "p2tog", "ssp"} -> 2
      [] op_str \in {"sk2p", "s2kp", "k3tog", "p3tog", "cdd"} -> 3
      [] OTHER -> 1

\* the Operation parse_stitch builds for a token matched as op_str with count
Operation(op_str, count) ==
    [ raw               |-> op_str,
      op_type           |-> _op_type_from_str(op_str),
      count             |-> count,
      count_effect      |-> STITCH_EFFECTS(op_str),
      stitches_consumed |-> _stitches_consumed_per_one(op_str) ]

\* the single Operation parse_row_instructions returns for "work even"
WorkEvenOp ==
    [ raw |-> "work even", op_type |-> "work_even", count |-> 1,
      count_effect |-> 0, stitches_consumed |-> 0 ]

\* Operation.total_effect
total_effect(op) == op.count_effect * op.count

\* RepeatBlock(operations, repeat_count, repeat_to_end, until_sts_remain)
RepeatBlock(ops, repeat_count, repeat_to_end, until_sts_remain) ==
    [ operations       |-> ops,
      repeat_count     |-> repeat_count,
      repeat_to_end    |-> repeat_to_end,
      until_sts_remain |-> until_sts_remain ]

RECURSIVE SumEffect(_)
SumEffect(ops) ==
    IF ops = <<>> THEN 0 ELSE total_effect(Head(ops)) + SumEffect(Tail(ops))

\* RepeatBlock.net_stitches_per_repeat
net_stitches_per_repeat(block) == SumEffect(block.operations)

\* one operation's share of RepeatBlock.stitches_consumed_per_repeat (by op_type)
ConsumedByType(op) ==
    CASE op.op_type \in {"yo", "m1l", "m1r", "m1"} -> 0
      [] op.op_type = "kfb" -> 1 * op.count
      [] op.op_type \in {"k2tog", "ssk", "p2tog", "ssp"} -> 2 * op.count
      [] op.op_type \in {"sk2p", "s2kp", "k3tog", "p3tog"} -> 3 * op.count
      [] OTHER -> 1 * op.count

RECURSIVE SumConsumedByType(_)
SumConsumedByType(ops) ==
    IF ops = <<>> THEN 0 ELSE ConsumedByType(Head(ops)) + SumConsumedByType(Tail(ops))

\* RepeatBlock.stitches_consumed_per_repeat
stitches_consumed_per_repeat(block) == SumConsumedByType(block.operations)

(***************************************************************************)
(* models/pattern.py: Row                                                  *)
(***************************************************************************)

\* the fields the Row dataclass declares: the keywords Row(...) accepts
RowFields ==
    { "number", "raw_text", "side", "is_round", "operations", "repeat_blocks",
      "expected_sts", "calculated_sts", "errors", "warnings", "is_repeat_ref",
      "segment_label" }

\* Row(**kw) raises TypeError when a keyword is no field of the dataclass
RowInitRaises(kw) == ~(DOMAIN kw \subseteq RowFields)

\* the dataclass defaults, with the two attributes the parser, the LLM merge and
\* the evaluator use beside them (cast_on_extra, line_number)
RowDefaults ==
    [ number         |-> None,
      raw_text       |-> "",
      operations     |-> <<>>,
      repeat_blocks  |-> <<>>,
      expected_sts   |-> EmptyDict,
      calculated_sts |-> EmptyDict,
      errors         |-> <<>>,
      warnings       |-> <<>>,
      is_repeat_ref  |-> FALSE,
      cast_on_extra  |-> None,
      line_number    |-> None ]

\* a Row object with the attributes kw set over the defaults
RowWith(kw) ==
    [f \in DOMAIN RowDefaults |-> IF f \in DOMAIN kw THEN kw[f] ELSE RowDefaults[f]]

(***************************************************************************)
(* validator/stitch_counter.py: the evaluator                              *)
(***************************************************************************)

\* a message string, by its wording and the two numbers it prints
Msg(kind, a, b) == [kind |-> kind, a |-> a, b |-> b]

\* error_message None
NoMsg == Msg("none", 0, 0)

\* "does not divide evenly" in block_error or "leftover" in block_error
IsWarningText(m) == m.kind \in {"until_not_even", "to_end_not_even"}

\* the three wordings of "Stitch count mismatch: ..."
MismatchKinds == {"mismatch_inc", "mismatch_dec", "mismatch_plain"}

\* the result (net stitch change, message) of _calculate_repeat_block
BlockResult(n, m) == [net |-> n, msg |-> m]

\* _calculate_repeat_block, lines 16-62, with consumed_per and net_per computed
RepeatBlockCases(block, available_sts, consumed_per, net_per) ==
    IF consumed_per = 0 THEN BlockResult(0, NoMsg)
    ELSE IF block.repeat_count # None THEN
        IF consumed_per * block.repeat_count > available_sts
        THEN BlockResult(0, Msg("fixed_overrun", consumed_per * block.repeat_count,
                                available_sts))
        ELSE BlockResult(net_per * block.repeat_count, NoMsg)
    ELSE IF block.until_sts_remain # None THEN
        IF available_sts - block.until_sts_remain < 0
        THEN BlockResult(0, Msg("until_short", block.until_sts_remain, available_sts))
        ELSE IF consumed_per = 0
        THEN BlockResult(0, Msg("infinite_loop", 0, 0))
        ELSE IF (available_sts - block.until_sts_remain) \div consumed_per = 0
        THEN BlockResult(0, NoMsg)
        ELSE IF (available_sts - block.until_sts_remain) % consumed_per # 0
        THEN BlockResult(
                 net_per * ((available_sts - block.until_sts_remain) \div consumed_per),
                 Msg("until_not_even", available_sts - block.until_sts_remain,
                     (available_sts - block.until_sts_remain) % consumed_per))
        ELSE BlockResult(
                 net_per * ((available_sts - block.until_sts_remain) \div consumed_per),
                 NoMsg)
    ELSE IF block.repeat_to_end THEN
        IF consumed_per = 0
        THEN BlockResult(0, Msg("infinite_loop", 0, 0))
        ELSE IF available_sts % consumed_per # 0
        THEN BlockResult(net_per * (available_sts \div consumed_per),
                         Msg("to_end_not_even", available_sts, available_sts % consumed_per))
        ELSE BlockResult(net_per * (available_sts \div consumed_per), NoMsg)
    ELSE BlockResult(net_per, NoMsg)

\* _calculate_repeat_block taking every until-K block as an until-0 block
_calculate_repeat_blockIgnoringK(block, available_sts) ==
    RepeatBlockCases([block EXCEPT !.until_sts_remain = IF @ # None THEN 0 ELSE @],
                     available_sts,
                     stitches_consumed_per_repeat(block), net_stitches_per_repeat(block))

\* _calculate_repeat_block(block, available_sts) -> (net stitch change, message)
_calculate_repeat_block(block, available_sts) ==
    RepeatBlockCases(block, available_sts,
                     stitches_consumed_per_repeat(block), net_stitches_per_repeat(block))

RECURSIVE SumFlatEffect(_)
SumFlatEffect(ops) ==
    IF ops = <<>> THEN 0 ELSE total_effect(Head(ops)) + SumFlatEffect(Tail(ops))

RECURSIVE SumAccounted(_)
SumAccounted(ops) ==
    IF ops = <<>> THEN 0
    ELSE Head(ops).stitches_consumed * Head(ops).count + SumAccounted(Tail(ops))

\* lines 98-106 with consumed_this_block computed
RemainingCases(block, remaining_for_repeats, consumed_this_block) ==
    IF block.repeat_count # None
    THEN remaining_for_repeats - consumed_this_block * block.repeat_count
    ELSE IF block.repeat_to_end
    THEN IF consumed_this_block > 0
         THEN remaining_for_repeats
                - consumed_this_block * (remaining_for_repeats \div consumed_this_block)
         ELSE remaining_for_repeats
    ELSE IF block.until_sts_remain # None
    THEN block.until_sts_remain
    ELSE remaining_for_repeats

\* remaining_for_repeats after one block (calculate_row_stitches, lines 98-106)
RemainingAfter(block, remaining_for_repeats) ==
    RemainingCases(block, remaining_for_repeats, stitches_consumed_per_repeat(block))

\* lines 97 and 108-112: acc = [net_change, errors, warnings] after one block's result
Accumulate(acc, res) ==
    [ net_change |-> acc.net_change + res.net,
      errors     |-> IF res.msg # NoMsg /\ ~IsWarningText(res.msg)
                     THEN Append(acc.errors, res.msg) ELSE acc.errors,
      warnings   |-> IF res.msg # NoMsg /\ IsWarningText(res.msg)
                     THEN Append(acc.warnings, res.msg) ELSE acc.warnings ]

\* the loop over row.repeat_blocks
RECURSIVE BlockLoop(_, _, _)
BlockLoop(blocks, remaining_for_repeats, acc) ==
    IF blocks = <<>> THEN acc
    ELSE BlockLoop(Tail(blocks),
                   RemainingAfter(Head(blocks), remaining_for_repeats),
                   Accumulate(acc, _calculate_repeat_block(Head(blocks),
                                                           remaining_for_repeats)))

\* calculate_row_stitches, lines 86-112: net_change and the block messages of a row
\* that is worked stitch by stitch
RowArithmetic(row, starting_sts) ==
    BlockLoop(row.repeat_blocks,
              starting_sts - SumAccounted(row.operations),
              [ net_change |-> SumFlatEffect(row.operations),
                errors     |-> <<>>,
                warnings   |-> <<>> ])

\* any(op.op_type == OperationType.WORK_EVEN for op in row.operations)
HasWorkEven(row) == \E k \in DOMAIN row.operations : row.operations[k].op_type = "work_even"

\* the rows calculate_row_stitches returns for before any arithmetic (lines 77-84)
EarlyReturn(row) == row.is_repeat_ref \/ row.cast_on_extra # None \/ HasWorkEven(row)

MismatchMsgUnsuppressed(expected, starting_sts, net_change, ending) ==
    IF ending # expected
    THEN IF net_change > 0 THEN Msg("mismatch_inc", ending, expected)
         ELSE IF net_change < 0 THEN Msg("mismatch_dec", ending, expected)
         ELSE Msg("mismatch_plain", ending, expected)
    ELSE NoMsg

\* the message of lines 127-143 without the test ending != expected
MismatchMsgAlways(expected, starting_sts, net_change, ending) ==
    IF expected = starting_sts /\ net_change # 0 THEN NoMsg
    ELSE IF net_change = 0 /\ expected < ending THEN NoMsg
    ELSE IF net_change > 0 THEN Msg("mismatch_inc", ending, expected)
    ELSE IF net_change < 0 THEN Msg("mismatch_dec", ending, expected)
    ELSE Msg("mismatch_plain", ending, expected)

\* the message of lines 127-143, NoMsg when none is appended
MismatchMsg(expected, starting_sts, net_change, ending) ==
    IF expected = starting_sts /\ net_change # 0 THEN NoMsg
    ELSE IF net_change = 0 /\ expected < ending THEN NoMsg
    ELSE IF ending # expected
    THEN IF net_change > 0 THEN Msg("mismatch_inc", ending, expected)
         ELSE IF net_change < 0 THEN Msg("mismatch_dec", ending, expected)
         ELSE Msg("mismatch_plain", ending, expected)
    ELSE NoMsg

\* the tuple (ending_count, errors, warnings) calculate_row_stitches returns
RowResult(e, errs, warns) == [ending |-> e, errors |-> errs, warnings |-> warns]

WithMismatchDropped(errs, m) == errs

\* errors with the mismatch message m appended, when there is one
WithMismatch(errs, m) == IF m # NoMsg THEN Append(errs, m) ELSE errs

\* calculate_row_stitches, lines 114-145, with the row's arithmetic a computed
Reconcile(row, starting_sts, size, a) ==
    IF row.number = 0
    THEN RowResult(Max(IF size \in DOMAIN row.expected_sts
                       THEN row.expected_sts[size]
                       ELSE starting_sts + a.net_change, 0),
                   a.errors, a.warnings)
    ELSE IF size \in DOMAIN row.expected_sts
    THEN RowResult(Max(starting_sts + a.net_change, 0),
                   WithMismatch(a.errors,
                                MismatchMsg(row.expected_sts[size], starting_sts,
                                            a.net_change, starting_sts + a.net_change)),
                   a.warnings)
    ELSE RowResult(Max(starting_sts + a.net_change, 0), a.errors, a.warnings)

calculate_row_stitchesNoExtra(row, starting_sts, size) ==
    IF row.is_repeat_ref THEN RowResult(starting_sts, <<>>, <<>>)
    ELSE IF HasWorkEven(row) THEN RowResult(starting_sts, <<>>, <<>>)
    ELSE Reconcile(row, starting_sts, size, RowArithmetic(row, starting_sts))

\* calculate_row_stitches losing the count on a repeat reference
calculate_row_stitchesRefResets(row, starting_sts, size) ==
    IF row.is_repeat_ref THEN RowResult(0, <<>>, <<>>)
    ELSE IF row.cast_on_extra # None
    THEN RowResult(starting_sts + row.cast_on_extra, <<>>, <<>>)
    ELSE IF HasWorkEven(row) THEN RowResult(starting_sts, <<>>, <<>>)
    ELSE Reconcile(row, starting_sts, size, RowArithmetic(row, starting_sts))

\* calculate_row_stitches(row, starting_sts, size) -> (ending_count, errors, warnings)
calculate_row_stitches(row, starting_sts, size) ==
    IF row.is_repeat_ref THEN RowResult(starting_sts, <<>>, <<>>)
    ELSE IF row.cast_on_extra # None
    THEN RowResult(starting_sts + row.cast_on_extra, <<>>, <<>>)
    ELSE IF HasWorkEven(row) THEN RowResult(starting_sts, <<>>, <<>>)
    ELSE Reconcile(row, starting_sts, size, RowArithmetic(row, starting_sts))

\* one entry of pattern.errors / pattern.warnings; line = None where the dict has no "line"
Issue(type, size, row, message, raw_text, line) ==
    [ type |-> type, size |-> size, row |-> row.number, message |-> message,
      raw_text |-> raw_text, line |-> line ]

\* "[size] message" appended to row.errors / row.warnings
RowNote(size, message) == [size |-> size, message |-> message]

RECURSIVE IssuesOf(_, _, _, _)
IssuesOf(type, size, row, msgs) ==
    IF msgs = <<>> THEN <<>>
    ELSE <<Issue(type, size, row, Head(msgs), row.raw_text, None)>>
           \o IssuesOf(type, size, row, Tail(msgs))

RECURSIVE NotesOf(_, _)
NotesOf(size, msgs) ==
    IF msgs = <<>> THEN <<>> ELSE <<RowNote(size, Head(msgs))>> \o NotesOf(size, Tail(msgs))

RecordRowNoAuthority(row, size, res) ==
    [ row      |-> [row EXCEPT !.calculated_sts = Put(@, size, res.ending),
                               !.errors = @ \o NotesOf(size, res.errors),
                               !.warnings = @ \o NotesOf(size, res.warnings)],
      errors   |-> IssuesOf("stitch_count", size, row, res.errors),
      warnings |-> IssuesOf("stitch_count_warning", size, row, res.warnings),
      current_sts |-> res.ending ]

\* validate_pattern, lines 164-197, with res = calculate_row_stitches(row, current_sts, size):
\* the row as left, the issues appended to the pattern and the next current_sts
RecordRow(row, size, res) ==
    IF row.number = 0 /\ size \in DOMAIN row.expected_sts
    THEN [ row      |-> [row EXCEPT !.calculated_sts =
                                        Put(@, size, row.expected_sts[size])],
           errors   |-> <<>>,
           warnings |-> <<>>,
           current_sts |-> row.expected_sts[size] ]
    ELSE [ row      |-> [row EXCEPT !.calculated_sts = Put(@, size, res.ending),
                                    !.errors = @ \o NotesOf(size, res.errors),
                                    !.warnings = @ \o NotesOf(size, res.warnings)],
           errors   |-> IssuesOf("stitch_count", size, row, res.errors),
           warnings |-> IssuesOf("stitch_count_warning", size, row, res.warnings),
           current_sts |-> res.ending ]

\* validate_pattern, lines 160-197: one row under one size
ValidateRow(row, current_sts, size) ==
    RecordRow(row, size, calculate_row_stitches(row, current_sts, size))

\* the body of the row loop handing 0 stitches to the next row
StoreRowRestarting(p, s, r, v) ==
    [ pattern     |-> [p EXCEPT !.sections[s].rows[r] = v.row,
                                !.errors = @ \o v.errors,
                                !.warnings = @ \o v.warnings],
      current_sts |-> 0 ]

\* the pattern and current_sts after the body of the row loop for row r of section s
StoreRow(p, s, r, v) ==
    [ pattern     |-> [p EXCEPT !.sections[s].rows[r] = v.row,
                                !.errors = @ \o v.errors,
                                !.warnings = @ \o v.warnings],
      current_sts |-> v.current_sts ]

\* the loops over pattern.sections and section.rows for one size (lines 158-197);
\* st = [pattern, current_sts]
RECURSIVE RowLoop(_, _, _, _)
RowLoop(st, size, s, r) ==
    IF s > Len(st.pattern.sections) THEN st.pattern
    ELSE IF r > Len(st.pattern.sections[s].rows) THEN RowLoop(st, size, s + 1, 1)
    ELSE RowLoop(StoreRow(st.pattern, s, r,
                          ValidateRow(st.pattern.sections[s].rows[r], st.current_sts, size)),
                 size, s, r + 1)

StartingCountZero(p, size) == 0

\* current_sts = pattern.cast_on_counts.get(size, 0)
StartingCount(p, size) == Get(p.cast_on_counts, size, 0)

\* for size in pattern.sizes (lines 155-197)
RECURSIVE SizeLoop(_, _)
SizeLoop(p, k) ==
    IF k > Len(p.sizes) THEN p
    ELSE SizeLoop(RowLoop([pattern |-> p, current_sts |-> StartingCount(p, p.sizes[k])],
                          p.sizes[k], 1, 1),
                  k + 1)

FillDefaultsAlways(p) ==
    [p EXCEPT !.sizes = <<"Size1">>, !.cast_on_counts = [sz \in {"Size1"} |-> 0]]

\* validate_pattern, lines 150-153
FillDefaults(p) ==
    LET sizes == IF p.sizes = <<>> THEN <<"Size1">> ELSE p.sizes
    IN  [p EXCEPT !.sizes = sizes,
                  !.cast_on_counts = IF DOMAIN p.cast_on_counts = {}
                                     THEN [sz \in Elems(sizes) |-> 0]
                                     ELSE p.cast_on_counts]

\* all rows of the pattern, sections in order, rows in order
RECURSIVE AllRows(_)
AllRows(sections) ==
    IF sections = <<>> THEN <<>> ELSE Head(sections).rows \o AllRows(Tail(sections))

\* _check_cross_row_consistency for one size; prev = <<>> (None) or <<prev_row>>
RECURSIVE CrossRowLoop(_, _, _)
CrossRowLoop(rows, size, prev) ==
    IF rows = <<>> THEN <<>>
    ELSE LET row == Head(rows)
         IN  IF row.is_repeat_ref THEN CrossRowLoop(Tail(rows), size, prev)
             ELSE LET warn ==
                          IF /\ prev # <<>>
                             /\ DOMAIN row.calculated_sts # {}
                             /\ DOMAIN prev[1].calculated_sts # {}
                             /\ ~(size \in DOMAIN row.expected_sts)
                             /\ row.operations = <<>>
                             /\ row.repeat_blocks = <<>>
                             /\ Get(row.calculated_sts, size, 0)
                                  # Get(prev[1].calculated_sts, size, 0)
                          THEN <<Issue("consistency", size, row,
                                       Msg("consistency",
                                           Get(prev[1].calculated_sts, size, 0),
                                           Get(row.calculated_sts, size, 0)),
                                       row.raw_text, None)>>
                          ELSE <<>>
                  IN  warn \o CrossRowLoop(Tail(rows), size, <<row>>)

RECURSIVE CrossRowSizes(_, _)
CrossRowSizes(p, k) ==
    IF k > Len(p.sizes) THEN <<>>
    ELSE CrossRowLoop(AllRows(p.sections), p.sizes[k], <<>>) \o CrossRowSizes(p, k + 1)

\* _check_cross_row_consistency looking at the first size only
_check_cross_row_consistencyFirstSize(p) ==
    [p EXCEPT !.warnings = @ \o CrossRowLoop(AllRows(p.sections), p.sizes[1], <<>>)]

\* _check_cross_row_consistency
_check_cross_row_consistency(p) == [p EXCEPT !.warnings = @ \o CrossRowSizes(p, 1)]

(***************************************************************************)
(* parser/size_parser.py: extract_all_stitch_assertions.                   *)
(* A line of the document is a record; its field asserts lists the count   *)
(* lists of the stitch-count assertions the three regular expressions find *)
(* on it (none on a line with "sts remain"), its field text is the line.   *)
(***************************************************************************)

RECURSIVE AssertionsOfLine(_, _, _)
AssertionsOfLine(line_num, text, found) ==
    IF found = <<>> THEN <<>>
    ELSE (IF Head(found) # <<>>
          THEN <<[line |-> line_num, counts |-> Head(found), raw_text |-> text]>>
          ELSE <<>>)
         \o AssertionsOfLine(line_num, text, Tail(found))

\* for line_num, line in enumerate(lines, 1)
RECURSIVE AssertionsFrom(_, _)
AssertionsFrom(text_lines, line_num) ==
    IF line_num > Len(text_lines) THEN <<>>
    ELSE AssertionsOfLine(line_num, text_lines[line_num].text, text_lines[line_num].asserts)
           \o AssertionsFrom(text_lines, line_num + 1)

\* extract_all_stitch_assertions(text) -> [{line, counts, raw_text}]
extract_all_stitch_assertions(text_lines) == AssertionsFrom(text_lines, 1)

(***************************************************************************)
(* validator/stitch_counter.py: _check_document_stitch_assertions          *)
(***************************************************************************)

\* list.sort(key=line_number) is stable: insert after the entries with a line <= row's
RECURSIVE InsertByLine(_, _)
InsertByLine(sorted, row) ==
    IF sorted = <<>> THEN <<row>>
    ELSE IF Head(sorted).line_number <= row.line_number
    THEN <<Head(sorted)>> \o InsertByLine(Tail(sorted), row)
    ELSE <<row>> \o sorted

\* row_line_sts: the rows with a line number and calculated counts, sorted by line
RECURSIVE RowLineSts(_, _)
RowLineSts(rows, sorted) ==
    IF rows = <<>> THEN sorted
    ELSE RowLineSts(Tail(rows),
                    IF Head(rows).line_number # None /\ DOMAIN Head(rows).calculated_sts # {}
                    THEN InsertByLine(sorted, Head(rows)) ELSE sorted)

AppliedRowFirst(row_line_sts, line_num, applied) ==
    IF row_line_sts = <<>> THEN applied
    ELSE IF Head(row_line_sts).line_number <= line_num THEN <<Head(row_line_sts)>>
    ELSE applied

\* the scan of lines 227-232: the last row with ln <= line_num, <<>> when there is none
RECURSIVE AppliedRow(_, _, _)
AppliedRow(row_line_sts, line_num, applied) ==
    IF row_line_sts = <<>> THEN applied
    ELSE IF Head(row_line_sts).line_number <= line_num
    THEN AppliedRow(Tail(row_line_sts), line_num, <<Head(row_line_sts)>>)
    ELSE applied

\* lines 239-244: <<stated>> maps sizes to the asserted counts, <<>> when the list fits neither way
StatedBySize(sizes, counts) ==
    IF Len(counts) = Len(sizes)
    THEN <<[sz \in Elems(sizes) |->
              counts[CHOOSE k \in DOMAIN sizes : sizes[k] = sz /\ \A j \in DOMAIN sizes : sizes[j] = sz => j <= k]]>>
    ELSE IF Len(counts) = 1
    THEN <<[sz \in Elems(sizes) |-> counts[1]]>>
    ELSE <<>>

\* lines 245-260: the errors of one assertion against the applied row
RECURSIVE AssertionErrors(_, _, _, _, _)
AssertionErrors(sizes, k, applied_row, stated, a) ==
    IF k > Len(sizes) THEN <<>>
    ELSE LET size == sizes[k]
         IN  (IF /\ size \in DOMAIN applied_row.calculated_sts
                 /\ size \in DOMAIN stated
                 /\ applied_row.calculated_sts[size] # stated[size]
              THEN <<Issue("stitch_count", size, applied_row,
                           Msg("stated_count", stated[size], applied_row.calculated_sts[size]),
                           a.raw_text, a.line)>>
              ELSE <<>>)
             \o AssertionErrors(sizes, k + 1, applied_row, stated, a)

\* the body of "for a in assertions" for one assertion
CheckAssertion(p, row_line_sts, a) ==
    LET applied == AppliedRow(row_line_sts, a.line, <<>>)
        stated  == StatedBySize(p.sizes, a.counts)
    IN  IF applied = <<>> THEN <<>>
        ELSE IF applied[1].line_number = a.line THEN <<>>
        ELSE IF stated = <<>> THEN <<>>
        ELSE AssertionErrors(p.sizes, 1, applied[1], stated[1], a)

RECURSIVE AssertionLoop(_, _, _)
AssertionLoop(p, row_line_sts, assertions) ==
    IF assertions = <<>> THEN <<>>
    ELSE CheckAssertion(p, row_line_sts, Head(assertions))
           \o AssertionLoop(p, row_line_sts, Tail(assertions))

\* _check_document_stitch_assertions
_check_document_stitch_assertions(p) ==
    IF p.sizes = <<>> THEN p
    ELSE [p EXCEPT !.errors = @ \o AssertionLoop(p, RowLineSts(AllRows(p.sections), <<>>),
                                                 extract_all_stitch_assertions(p.raw_text))]

\* validate_pattern
validate_pattern(p) ==
    _check_document_stitch_assertions(
        _check_cross_row_consistency(SizeLoop(FillDefaults(p), 1)))

(***************************************************************************)
(* parser/size_parser.py and parser/pattern_parser.py: parse_pattern       *)
(***************************************************************************)

\* f"Size{j}"
SizeLabel(j) ==
    CASE j = 1 -> "Size1" [] j = 2 -> "Size2" [] j = 3 -> "Size3"
      [] j = 4 -> "Size4" [] OTHER -> "SizeN"

\* {keys[k]: vals[k] for k in 1..n}: a later key overwrites an equal earlier one
DictOf(keys, vals, n) ==
    [key \in {keys[k] : k \in 1..n} |->
        vals[CHOOSE k \in 1..n : keys[k] = key /\ \A j \in 1..n : keys[j] = key => j <= k]]

\* map_sizes_to_counts(sizes, counts): the dict returned, and the caller's list sizes
\* as the call leaves it (labels are appended to it in place when it is non-empty
\* and shorter than counts)
map_sizes_to_counts(sizes, counts) ==
    LET used == IF sizes = <<>>
                THEN [j \in 1..Len(counts) |-> SizeLabel(j)]
                ELSE IF Len(sizes) < Len(counts)
                THEN sizes \o [j \in 1..(Len(counts) - Len(sizes)) |-> SizeLabel(Len(sizes) + j)]
                ELSE sizes
        n    == IF Len(counts) < Len(used) THEN Len(counts) ELSE Len(used)
    IN  [ result |-> DictOf(used, counts, n),
          sizes  |-> IF sizes = <<>> THEN sizes ELSE used ]

\* the first count is dropped when it is below this and all others are at or above it
OutlierLimit == 20

\* counts[-n:]
LastN(counts, n) == SubSeq(counts, Len(counts) - n + 1, Len(counts))

\* a line of the document, by what the classifiers of parse_pattern find in it
LineDefaults ==
    [ text          |-> "",      \* line.strip()
      sizes         |-> FALSE,   \* _SIZES_PATTERN.search
      size_labels   |-> <<>>,    \* parse_size_definitions(line)
      meta          |-> "",      \* the metadata slot whose pattern matches
      notes         |-> FALSE,   \* _NOTES_PATTERN.search
      co            |-> FALSE,   \* _CO_PATTERN.search
      co_counts     |-> <<>>,    \* parse_cast_on_line(line)
      section       |-> "",      \* the heading name accepted by lines 121-127
      work_until    |-> FALSE,   \* _WORK_UNTIL_PATTERN.search
      row           |-> FALSE,   \* _ROW_PATTERN.match or _NEXT_ROW_PATTERN.match
      row_num       |-> None,    \* int(m_row.group(1))
      stated        |-> <<>>,    \* extract_stated_stitch_count(instruction_text) or []
      flat_ops      |-> <<>>,    \* parse_row_instructions(instruction_text)[0]
      repeat_blocks |-> <<>>,    \* parse_row_instructions(instruction_text)[1]
      asserts       |-> <<>> ]   \* the count lists extract_all_stitch_assertions finds

LineWith(kw) ==
    [f \in DOMAIN LineDefaults |-> IF f \in DOMAIN kw THEN kw[f] ELSE LineDefaults[f]]

\* Section(name=name)
Section(name) == [name |-> name, rows |-> <<>>]

\* Pattern(raw_text=text), with the initial "Main" section appended (lines 51-55)
NewPattern(text_lines) ==
    [ raw_text       |-> text_lines,
      sizes          |-> <<>>,
      cast_on_counts |-> EmptyDict,
      sections       |-> <<Section("Main")>>,
      materials      |-> "",
      gauge          |-> "",
      finished_measurements |-> "",
      abbreviations  |-> "",
      notes          |-> "",
      errors         |-> <<>>,
      warnings       |-> <<>> ]

\* the outcome of one iteration of the loop of parse_pattern
Step(p, cs, raised) == [pattern |-> p, current_section |-> cs, raised |-> raised]

\* current_section.rows.append(Row(**kw)); Row(**kw) raises first when it rejects kw
AppendRow(p, cs, kw) ==
    IF RowInitRaises(kw) THEN Step(p, cs, TRUE)
    ELSE Step([p EXCEPT !.sections[cs].rows = Append(@, RowWith(kw))], cs, FALSE)

\* lines 87-119: a line that matches _CO_PATTERN
CastOnLine(p, cs, line, line_number) ==
    LET counts == line.co_counts
    IN  IF counts = <<>> THEN Step(p, cs, FALSE)
        ELSE IF DOMAIN p.cast_on_counts # {}
        THEN IF Len(counts) = 1
             THEN AppendRow(p, cs, [ raw_text      |-> line.text,
                                     line_number   |-> line_number,
                                     cast_on_extra |-> counts[1] ])
             ELSE Step(p, cs, FALSE)
        ELSE LET kept   == IF /\ Len(counts) >= 2
                              /\ counts[1] < OutlierLimit
                              /\ \A k \in 2..Len(counts) : counts[k] >= OutlierLimit
                           THEN Tail(counts) ELSE counts
                 sizes  == IF p.sizes = <<>>
                           THEN [j \in 1..Len(kept) |-> SizeLabel(j)] ELSE p.sizes
                 used   == IF Len(kept) > Len(sizes) THEN LastN(kept, Len(sizes)) ELSE kept
                 mapped == map_sizes_to_counts(sizes, used)
                 p2     == [p EXCEPT !.sizes = mapped.sizes,
                                     !.cast_on_counts = mapped.result]
             IN  AppendRow(p2, cs, [ number         |-> 0,
                                     raw_text       |-> line.text,
                                     line_number    |-> line_number,
                                     expected_sts   |-> mapped.result,
                                     calculated_sts |-> mapped.result ])

\* lines 142-169: a line that matches the row pattern
RowLine(p, cs, line, line_number) ==
    LET mapped == IF line.stated # <<>> /\ p.sizes # <<>>
                  THEN map_sizes_to_counts(p.sizes, line.stated)
                  ELSE IF line.stated # <<>>
                  THEN [ result |-> DictOf([j \in 1..Len(line.stated) |-> SizeLabel(j)],
                                           line.stated, Len(line.stated)),
                         sizes  |-> p.sizes ]
                  ELSE [result |-> EmptyDict, sizes |-> p.sizes]
    IN  AppendRow([p EXCEPT !.sizes = mapped.sizes], cs,
                  [ number        |-> line.row_num,
                    raw_text      |-> line.text,
                    line_number   |-> line_number,
                    side          |-> "",
                    is_round      |-> FALSE,
                    operations    |-> line.flat_ops,
                    repeat_blocks |-> line.repeat_blocks,
                    expected_sts  |-> mapped.result ])

\* one iteration of the while loop of parse_pattern (lines 59-169) on lines[line_number]
ParseOneLine(p, cs, line, line_number) ==
    IF line.text = "" THEN Step(p, cs, FALSE)
    ELSE IF line.sizes THEN Step([p EXCEPT !.sizes = line.size_labels], cs, FALSE)
    ELSE IF line.meta = "gauge" THEN Step([p EXCEPT !.gauge = line.text], cs, FALSE)
    ELSE IF line.meta = "materials" THEN Step([p EXCEPT !.materials = line.text], cs, FALSE)
    ELSE IF line.meta = "finished_measurements"
    THEN Step([p EXCEPT !.finished_measurements = line.text], cs, FALSE)
    ELSE IF line.meta = "abbreviations"
    THEN Step([p EXCEPT !.abbreviations = line.text], cs, FALSE)
    ELSE IF line.notes /\ p.sections[cs].rows = <<>>
    THEN Step([p EXCEPT !.notes = line.text], cs, FALSE)
    ELSE IF line.co THEN CastOnLine(p, cs, line, line_number)
    ELSE IF line.section # ""
    THEN Step([p EXCEPT !.sections = Append(@, Section(line.section))],
              Len(p.sections) + 1, FALSE)
    ELSE IF line.work_until
    THEN AppendRow(p, cs, [ raw_text      |-> line.text,
                            line_number   |-> line_number,
                            is_repeat_ref |-> TRUE,
                            segment_label |-> line.text ])
    ELSE IF line.row THEN RowLine(p, cs, line, line_number)
    ELSE Step(p, cs, FALSE)

\* lines 171-173: sections without rows are dropped (Section.notes is never set);
\* a single "Main" is restored when none is left
RECURSIVE NonEmptySections(_)
NonEmptySections(sections) ==
    IF sections = <<>> THEN <<>>
    ELSE (IF Head(sections).rows # <<>> THEN <<Head(sections)>> ELSE <<>>)
         \o NonEmptySections(Tail(sections))

DropEmptySections(p) ==
    LET kept == NonEmptySections(p.sections)
    IN  [p EXCEPT !.sections = IF kept = <<>> THEN <<Section("Main")>> ELSE kept]

(***************************************************************************)
(* The documents handed to the pipeline                                    *)
(***************************************************************************)

\* the longest document, in lines
MaxLines == 3

LineCatalogue ==
    { LineWith([text |-> ""]),
      LineWith([text |-> "Sizes: S, M", sizes |-> TRUE, size_labels |-> <<"S", "M">>]),
      LineWith([text |-> "Gauge: 20 sts", meta |-> "gauge"]),
      LineWith([text |-> "Notes: swatch first", notes |-> TRUE]),
      LineWith([text |-> "CO 6 sts", co |-> TRUE, co_counts |-> <<6>>]),
      LineWith([text |-> "CO 6, 9 sts", co |-> TRUE, co_counts |-> <<6, 9>>]),
      LineWith([text |-> "CO loosely", co |-> TRUE]),
      LineWith([text |-> "Body", section |-> "Body"]),
      LineWith([text |-> "knit the swatch"]),
      LineWith([text |-> "You should have [7] sts", asserts |-> <<<<7>>>>]),
      LineWith([text |-> "Work even until piece measures 5 in", work_until |-> TRUE]),
      LineWith([text |-> "Row 1: k2", row |-> TRUE, row_num |-> 1,
                flat_ops |-> <<Operation("k", 2)>>]),
      LineWith([text |-> "Row 3: k2, cast on 2 sts", co |-> TRUE, co_counts |-> <<2>>,
                row |-> TRUE, row_num |-> 3, flat_ops |-> <<Operation("k", 2)>>]),
      LineWith([text |-> "Row 4: work even until 5 in", work_until |-> TRUE,
                row |-> TRUE, row_num |-> 4, flat_ops |-> <<WorkEvenOp>>]),
      LineWith([text |-> "Row 2: k2tog, k4 (5, 8, 9 sts)", row |-> TRUE, row_num |-> 2,
                stated |-> <<5, 8, 9>>,
                flat_ops |-> <<Operation("k2tog", 1), Operation("k", 4)>>]) }

Documents == UNION {[1..n -> LineCatalogue] : n \in 0..MaxLines}

(***************************************************************************)
(* _run_pipeline(raw_text, use_llm=False): parse_pattern, then             *)
(* validate_pattern                                                        *)
(***************************************************************************)

Init ==
    /\ lines \in Documents
    /\ pc = "parse"
    /\ i = 0
    /\ current_section = 1
    /\ pattern = NewPattern(lines)
    /\ arg = NewPattern(lines)
    /\ ret = None

\* one iteration of the while loop; an exception of Row(...) leaves parse_pattern
\* and _run_pipeline
ParseLine ==
    /\ pc = "parse"
    /\ i < Len(lines)
    /\ LET st == ParseOneLine(pattern, current_section, lines[i + 1], i + 1)
       IN  /\ pattern' = st.pattern
           /\ current_section' = st.current_section
           /\ pc' = IF st.raised THEN "raised" ELSE "parse"
    /\ i' = i + 1
    /\ UNCHANGED <<lines, arg, ret>>

\* the loop ends: lines 171-175, and _run_pipeline calls validate_pattern(pattern)
ParseReturn ==
    /\ pc = "parse"
    /\ i = Len(lines)
    /\ pattern' = DropEmptySections(pattern)
    /\ arg' = DropEmptySections(pattern)
    /\ pc' = "validate"
    /\ UNCHANGED <<lines, i, current_section, ret>>

\* validate_pattern(pattern)
Validate ==
    /\ pc = "validate"
    /\ pattern' = validate_pattern(pattern)
    /\ pc' = "done"
    /\ UNCHANGED <<lines, i, current_section, arg, ret>>

Next == ParseLine \/ ParseReturn \/ Validate

Spec == Init /\ [][Next]_vars

(***************************************************************************)
(* The Patterns handed to validate_pattern directly.  A row is given by    *)
(* the text of the line it stands for; it carries the attributes the       *)
(* evaluator reads.  Size labels are distinct.                             *)
(***************************************************************************)

\* the most rows of a Pattern handed to validate_pattern
MaxRows == 2

\* a row to be placed in a Pattern: its attributes, the counts its line states
\* (mapped to the sizes when it is placed), whether it is the parser's synthetic
\* cast-on row, and whether it has a source line (a row the LLM merge inserts has none);
\* dash tells that the line states its counts as "- N sts", the one form of a row's
\* stated count that extract_all_stitch_assertions finds as well
Template(kw, stated, synthetic, has_line) ==
    [ kw |-> kw, stated |-> stated, synthetic |-> synthetic, has_line |-> has_line,
      dash |-> FALSE ]

DashTemplate(kw, stated) == [Template(kw, stated, FALSE, TRUE) EXCEPT !.dash = TRUE]

K2TOG == Operation("k2tog", 1)
YO == Operation("yo", 1)

RowTemplates ==
    { Template([number |-> 0, raw_text |-> "CO 6, 9 sts"], <<>>, TRUE, TRUE),
      Template([number |-> 0, raw_text |-> "Row 0: *k2tog* 5 times (5 sts)",
                repeat_blocks |-> <<RepeatBlock(<<K2TOG>>, 5, FALSE, None)>>],
               <<5>>, FALSE, TRUE),
      Template([raw_text |-> "work even until 5 in", is_repeat_ref |-> TRUE],
               <<>>, FALSE, TRUE),
      Template([raw_text |-> "Cast on 2 sts at underarm", cast_on_extra |-> 2],
               <<>>, FALSE, TRUE),
      Template([raw_text |-> "Cast on 3 more sts", cast_on_extra |-> 3],
               <<>>, FALSE, FALSE),
      Template([raw_text |-> "Cast on 0 sts", cast_on_extra |-> 0],
               <<>>, FALSE, TRUE),
      Template([number |-> 0, raw_text |-> "Row 0: work even (7 sts)",
                operations |-> <<WorkEvenOp>>], <<7>>, FALSE, TRUE),
      Template([number |-> 2, raw_text |-> "Row 2: work even",
                operations |-> <<WorkEvenOp>>], <<>>, FALSE, TRUE),
      Template([number |-> 2, raw_text |-> "Row 2: work even (7, 9 sts)",
                operations |-> <<WorkEvenOp>>], <<7, 9>>, FALSE, TRUE),
      Template([number |-> 1, raw_text |-> "Row 1: k2",
                operations |-> <<Operation("k", 2)>>], <<>>, FALSE, TRUE),
      Template([number |-> 1, raw_text |-> "Row 1: k2 (6, 7 sts)",
                operations |-> <<Operation("k", 2)>>], <<6, 7>>, FALSE, TRUE),
      Template([number |-> 12, raw_text |-> "Row 12: k2 (8 sts)",
                operations |-> <<Operation("k", 2)>>], <<8>>, FALSE, TRUE),
      Template([number |-> 3, raw_text |-> "Row 3: k2tog, k1 (5, 9 sts)",
                operations |-> <<K2TOG, Operation("k", 1)>>], <<5, 9>>, FALSE, TRUE),
      DashTemplate([number |-> 13, raw_text |-> "Row 13: k2tog - 4 sts",
                    operations |-> <<K2TOG>>], <<4>>),
      Template([number |-> 4, raw_text |-> "Row 4: yo, k1 (9, 10 sts)",
                operations |-> <<YO, Operation("k", 1)>>], <<9, 10>>, FALSE, TRUE),
      Template([number |-> 5, raw_text |-> "Row 5: k2tog9 (0, 0 sts)",
                operations |-> <<Operation("k2tog", 9)>>], <<0, 0>>, FALSE, TRUE),
      Template([number |-> 6, raw_text |-> "Row 6: *k2tog* to end",
                repeat_blocks |-> <<RepeatBlock(<<K2TOG>>, None, TRUE, None)>>],
               <<>>, FALSE, TRUE),
      Template([number |-> 7, raw_text |-> "Row 7: *yo* to end",
                repeat_blocks |-> <<RepeatBlock(<<YO>>, None, TRUE, None)>>],
               <<>>, FALSE, TRUE),
      Template([number |-> 8, raw_text |-> "Row 8: *k2tog* 5 times",
                repeat_blocks |-> <<RepeatBlock(<<K2TOG>>, 5, FALSE, None)>>],
               <<>>, FALSE, TRUE),
      Template([number |-> 9, raw_text |-> "Row 9: k1, *k1, yo* until 2 sts remain",
                operations |-> <<Operation("k", 1)>>,
                repeat_blocks |-> <<RepeatBlock(<<Operation("k", 1), YO>>, None, FALSE, 2)>>],
               <<>>, FALSE, TRUE),
      Template([number |-> 10, raw_text |-> "Row 10: *yo* until 2 sts remain",
                repeat_blocks |-> <<RepeatBlock(<<YO>>, None, FALSE, 2)>>],
               <<>>, FALSE, TRUE),
      Template([number |-> 11, raw_text |-> "Row 11: *k2tog* 2 times, *k3* to end",
                repeat_blocks |-> <<RepeatBlock(<<K2TOG>>, 2, FALSE, None),
                                    RepeatBlock(<<Operation("k", 3)>>, None, TRUE, None)>>],
               <<>>, FALSE, TRUE),
      Template([number |-> 14, raw_text |-> "Row 14:"], <<>>, FALSE, TRUE) }

\* the declared sizes and cast-on counts of the Patterns
SizeChoices == {<<>>, <<"S">>, <<"S", "M">>}

CastOnChoices(sizes) ==
    IF sizes = <<>> THEN {EmptyDict}
    ELSE {EmptyDict, DictOf(sizes, <<6, 9>>, Len(sizes))}

\* row k of a Pattern stands on line 2k of its document
LineOfRow(k) == 2 * k

\* the first n elements of a list
FirstN(s, n) == SubSeq(s, 1, IF n < Len(s) THEN n ELSE Len(s))

\* the Row the parser builds for the line of template t, as row k of a Pattern
\* with these sizes and cast-on counts (pattern_parser.py lines 111-117, 149-167)
PlaceRow(t, k, sizes, cast_on_counts) ==
    RowWith([f \in DOMAIN t.kw \cup {"expected_sts", "calculated_sts", "line_number"} |->
        CASE f = "expected_sts" ->
                 IF t.synthetic THEN cast_on_counts
                 ELSE IF t.stated = <<>> THEN EmptyDict
                 ELSE IF sizes = <<>> THEN map_sizes_to_counts(sizes, t.stated).result
                 ELSE map_sizes_to_counts(sizes, FirstN(t.stated, Len(sizes))).result
          [] f = "calculated_sts" -> IF t.synthetic THEN cast_on_counts ELSE EmptyDict
          [] f = "line_number" -> IF t.has_line THEN LineOfRow(k) ELSE None
          [] OTHER -> t.kw[f]])

\* the first row in section "Main", the others in section "Body"
SectionsOf(rows) ==
    IF rows = <<>> THEN <<Section("Main")>>
    ELSE IF Len(rows) = 1 THEN <<[name |-> "Main", rows |-> rows]>>
    ELSE <<[name |-> "Main", rows |-> <<Head(rows)>>], [name |-> "Body", rows |-> Tail(rows)]>>

EvalPattern(sizes, cast_on_counts, templates, text_lines) ==
    [NewPattern(text_lines) EXCEPT
        !.sizes = sizes,
        !.cast_on_counts = cast_on_counts,
        !.sections = SectionsOf([k \in 1..Len(templates) |->
                                    PlaceRow(templates[k], k, sizes, cast_on_counts)])]

TemplateLists == UNION {[1..n -> RowTemplates] : n \in 1..MaxRows}

InitEval ==
    /\ \E sizes \in SizeChoices :
         \E cast_on_counts \in CastOnChoices(sizes) :
           \E templates \in TemplateLists :
             /\ pattern = EvalPattern(sizes, cast_on_counts, templates, <<>>)
             /\ arg = EvalPattern(sizes, cast_on_counts, templates, <<>>)
    /\ pc = "validate"
    /\ lines = <<>>
    /\ i = 0
    /\ current_section = 1
    /\ ret = None

NextEval == Validate

SpecEval == InitEval /\ [][NextEval]_vars

(***************************************************************************)
(* The Patterns handed to validate_pattern together with their document:   *)
(* row k stands on line 2k, and one of the lines between the rows may      *)
(* state a stitch count.                                                   *)
(***************************************************************************)

DocTemplates ==
    {t \in RowTemplates :
        t.kw.raw_text \in { "CO 6, 9 sts", "Row 0: *k2tog* 5 times (5 sts)",
                            "Cast on 3 more sts", "Row 1: k2", "Row 13: k2tog - 4 sts",
                            "Row 4: yo, k1 (9, 10 sts)", "Row 6: *k2tog* to end" }}

DocTemplateLists == UNION {[1..n -> DocTemplates] : n \in 1..MaxRows}

\* the count lists a line between the rows may state
AssertedCounts == {<<7>>, <<6, 9>>, <<4, 6>>, <<1, 2, 3>>}

AssertionText(counts) ==
    CASE counts = <<7>> -> "You should have [7] sts"
      [] counts = <<6, 9>> -> "There are [6, 9] sts"
      [] counts = <<4, 6>> -> "Now [4, 6] sts"
      [] OTHER -> "Count [1, 2, 3] sts"

\* the lines of the document: the rows' lines, and counts asserted on line at
\* (no assertion when at = 0)
DocumentOf(templates, at, counts) ==
    [ln \in 1..(2 * MaxRows + 1) |->
        IF ln = at THEN LineWith([text |-> AssertionText(counts), asserts |-> <<counts>>])
        ELSE IF ln % 2 = 0 /\ ln \div 2 <= Len(templates) /\ templates[ln \div 2].has_line
        THEN LineWith([text |-> templates[ln \div 2].kw.raw_text,
                       asserts |-> IF templates[ln \div 2].dash
                                   THEN <<templates[ln \div 2].stated>> ELSE <<>>])
        ELSE LineWith([text |-> ""])]

\* the lines between the rows
AssertionLines == {0} \cup {2 * k + 1 : k \in 0..MaxRows}

InitDoc ==
    /\ \E sizes \in SizeChoices :
         \E cast_on_counts \in CastOnChoices(sizes) :
           \E templates \in DocTemplateLists :
             \E at \in AssertionLines :
               \E counts \in IF at = 0 THEN {<<7>>} ELSE AssertedCounts :
                 /\ pattern = EvalPattern(sizes, cast_on_counts, templates,
                                          DocumentOf(templates, at, counts))
                 /\ arg = EvalPattern(sizes, cast_on_counts, templates,
                                      DocumentOf(templates, at, counts))
    /\ pc = "validate"
    /\ lines = <<>>
    /\ i = 0
    /\ current_section = 1
    /\ ret = None

SpecDoc == InitDoc /\ [][NextEval]_vars

(***************************************************************************)
(* parser/stitch_parser.py: the tokenizer.  A token is a record: its word  *)
(* is the text before the digits, its digits the number that follows       *)
(* (None when there is none).  A bare number has the word "".              *)
(***************************************************************************)

\* the alternatives of the group op of _STITCH_PATTERN
StitchOps ==
    { "k3tog", "p3tog", "k2tog", "p2tog", "ssk", "ssp", "sk2p", "s2kp", "cdd",
      "kfb", "pfb", "m1l", "m1r", "m1p", "m1", "yo",
      "sl1", "sl", "wyif", "wyib", "sm", "pm", "bo", "co", "k", "p" }

Token(word, digits) == [word |-> word, digits |-> digits]

\* STITCH_ALIASES: the canonical token of a token.  The token is compared with the
\* whole alias, so an alias of several words is found only in a token that holds
\* the words with the space between them.
STITCH_ALIASES(token) ==
    IF token.digits # None THEN token
    ELSE CASE token.word = "knit" -> Token("k", None)
           [] token.word = "purl" -> Token("p", None)
           [] token.word = "slip" -> Token("sl", None)
           [] token.word = "kfab" -> Token("kfb", None)
           [] token.word = "slip marker" -> Token("sm", None)
           [] token.word = "place marker" -> Token("pm", None)
           [] token.word = "yarn over" -> Token("yo", None)
           [] token.word = "bind off" -> Token("bo", None)
           [] token.word = "cast on" -> Token("co", None)
           [] OTHER -> token

\* _STITCH_PATTERN.match(token) finds an op at the start of the token
StitchMatches(token) == token.word \in StitchOps

\* parse_stitch(token) for a token the pattern matches (lines 97-122)
parse_stitch(token) ==
    [ Operation(STITCH_ALIASES(token).word,
                IF STITCH_ALIASES(token).digits # None
                THEN STITCH_ALIASES(token).digits ELSE 1)
      EXCEPT !.raw = STITCH_ALIASES(token) ]

\* next_tok.isdigit()
IsBareNumber(token) == token.word = "" /\ token.digits # None

\* lines 171-178: the count of a k or p taken from the bare number that follows it
WithMergedCount(op, tokens) ==
    IF /\ op.op_type \in {"k", "p"}
       /\ Len(tokens) >= 2
       /\ IsBareNumber(tokens[2])
       /\ tokens[2].digits >= 1
    THEN [op EXCEPT !.count = tokens[2].digits,
                    !.raw = Token(op.raw.word, tokens[2].digits)]
    ELSE op

\* lines 171-178: the bare number after a k or p is skipped
SkipsNext(op, tokens) ==
    op.op_type \in {"k", "p"} /\ Len(tokens) >= 2 /\ IsBareNumber(tokens[2])

\* lines 181-184: "marker" after sl turns the last operation into sm
WithMarker(ops, token) ==
    IF /\ token.word = "marker"
       /\ token.digits = None
       /\ ops # <<>>
       /\ ops[Len(ops)].raw = Token("sl", None)
    THEN [ops EXCEPT ![Len(ops)] =
              [@ EXCEPT !.raw = Token("sm", None),
                        !.count_effect = STITCH_EFFECTS("sm"),
                        !.stitches_consumed = _stitches_consumed_per_one("sm")]]
    ELSE ops

\* the loop of parse_instruction_segment over the tokens that are left
RECURSIVE SegmentLoop(_, _)
SegmentLoop(tokens, ops) ==
    IF tokens = <<>> THEN ops
    ELSE IF StitchMatches(STITCH_ALIASES(Head(tokens)))
    THEN SegmentLoop(
             IF SkipsNext(parse_stitch(Head(tokens)), tokens)
             THEN Tail(Tail(tokens)) ELSE Tail(tokens),
             Append(ops, WithMergedCount(parse_stitch(Head(tokens)), tokens)))
    ELSE SegmentLoop(Tail(tokens), WithMarker(ops, Head(tokens)))

\* parse_instruction_segment(text), text given by its tokens
parse_instruction_segment(tokens) == SegmentLoop(tokens, <<>>)

\* a match of _REPEAT_BLOCK_PATTERN: the tokens between the stars, the number of
\* "N times" and the number of "until K sts remain" (None when that group is empty)
Starred(inner, times, until) == [inner |-> inner, times |-> times, until |-> until]

\* parse_repeat_block for a match whose inner text yields the operations ops
parse_repeat_block(m, ops) ==
    IF m.times # None THEN RepeatBlock(ops, m.times, FALSE, None)
    ELSE IF m.until # None THEN RepeatBlock(ops, None, FALSE, m.until)
    ELSE RepeatBlock(ops, None, TRUE, None)

\* the loop over _REPEAT_BLOCK_PATTERN.finditer(text) (lines 206-210)
RECURSIVE StarredLoop(_)
StarredLoop(ms) ==
    IF ms = <<>> THEN <<>>
    ELSE IF parse_instruction_segment(Head(ms).inner) = <<>>
    THEN StarredLoop(Tail(ms))
    ELSE <<parse_repeat_block(Head(ms), parse_instruction_segment(Head(ms).inner))>>
             \o StarredLoop(Tail(ms))

\* a row's instruction text: whether "work even" occurs in it, the tokens outside
\* the starred groups, and the starred groups
Instruction(work_even, flat, starred) ==
    [work_even |-> work_even, flat |-> flat, starred |-> starred]

\* parse_row_instructions(text) -> (flat_ops, repeat_blocks)
parse_row_instructions(text) ==
    IF text.work_even
    THEN [flat_ops |-> <<WorkEvenOp>>, repeat_blocks |-> <<>>]
    ELSE [flat_ops |-> parse_instruction_segment(text.flat),
          repeat_blocks |-> StarredLoop(text.starred)]

(***************************************************************************)
(* services/llm_enhanced_parser.py: Operations and RepeatBlocks built from *)
(* the LLM's JSON.  A JSON value that may be missing is None when it is.   *)
(***************************************************************************)

\* _OP_MAP.get(op_str, OperationType.UNKNOWN)
_OP_MAP(op_str) ==
    CASE op_str \in {"k", "p", "sl", "k2tog", "ssk", "p2tog", "ssp", "sk2p", "s2kp",
                     "k3tog", "p3tog", "yo", "m1", "m1l", "m1r", "kfb", "bo", "co"}
             -> op_str
      [] op_str = "pfb" -> "kfb"
      [] OTHER -> "unknown"

\* _stitches_consumed
_stitches_consumed(op_str) ==
    CASE op_str \in {"yo", "m1", "m1l", "m1r", "m1p"} -> 0
      [] op_str \in {"k2tog", "ssk", "p2tog", "ssp"} -> 2
      [] op_str \in {"sk2p", "s2kp", "k3tog", "p3tog", "cdd"} -> 3
      [] OTHER -> 1

\* a JSON count: missing ("absent"), an integer ("int"), a string int() accepts
\* ("numeric_str") or a string int() rejects ("other_str")
JsonCount(kind, n) == [kind |-> kind, n |-> n]

\* lines 58-65: op_dict.get("count", 1), a string converted with int() or replaced by 1
CountOf(count) == IF count.kind \in {"int", "numeric_str"} THEN count.n ELSE 1

\* {"op": op, "count": count}
OpDict(op, count) == [op |-> op, count |-> count]

\* _build_operation(op_dict) for an op_dict whose op is not empty
_build_operation(op_dict) ==
    [ raw               |-> Token(op_dict.op, IF CountOf(op_dict.count) > 1
                                              THEN CountOf(op_dict.count) ELSE None),
      op_type           |-> _OP_MAP(op_dict.op),
      count             |-> CountOf(op_dict.count),
      count_effect      |-> STITCH_EFFECTS(op_dict.op),
      stitches_consumed |-> _stitches_consumed(op_dict.op) ]

\* the loops of lines 82-85 and 154-157: the operations of the op_dicts whose op is
\* not empty
RECURSIVE BuildOperations(_)
BuildOperations(op_dicts) ==
    IF op_dicts = <<>> THEN <<>>
    ELSE IF Head(op_dicts).op = "" THEN BuildOperations(Tail(op_dicts))
    ELSE <<_build_operation(Head(op_dicts))>> \o BuildOperations(Tail(op_dicts))

\* {"operations": ..., "repeat_count": ..., "repeat_to_end": ..., "until_sts_remain": ...}
BlockDict(operations, repeat_count, repeat_to_end, until_sts_remain) ==
    [ operations       |-> operations,
      repeat_count     |-> repeat_count,
      repeat_to_end    |-> repeat_to_end,
      until_sts_remain |-> until_sts_remain ]

\* _build_repeat_block(block_dict) for a block_dict that yields an operation
_build_repeat_block(block_dict) ==
    RepeatBlock(BuildOperations(block_dict.operations), block_dict.repeat_count,
                block_dict.repeat_to_end, block_dict.until_sts_remain)

\* the loop of lines 161-164: the blocks of the block_dicts that yield an operation
RECURSIVE BuildBlocks(_)
BuildBlocks(block_dicts) ==
    IF block_dicts = <<>> THEN <<>>
    ELSE IF BuildOperations(Head(block_dicts).operations) = <<>>
    THEN BuildBlocks(Tail(block_dicts))
    ELSE <<_build_repeat_block(Head(block_dicts))>> \o BuildBlocks(Tail(block_dicts))

(***************************************************************************)
(* services/llm_enhanced_parser.py: enhance_pattern_with_llm.  llm_result  *)
(* is the parsed JSON; a key that is missing has the empty value, and     *)
(* available is FALSE when llm_parse_pattern returns None.  expected_sts   *)
(* of an LLM row lists the numbers that pass str(s).isdigit().  The side   *)
(* of a row is not modelled.                                               *)
(***************************************************************************)

\* llm_row_map (lines 121-127): a later lr replaces an earlier one of the same number
RECURSIVE LlmRowMap(_, _)
LlmRowMap(llm_rows, m) ==
    IF llm_rows = <<>> THEN m
    ELSE LlmRowMap(Tail(llm_rows),
                   IF Head(llm_rows).number # None
                   THEN Put(m, Head(llm_rows).number, Head(llm_rows)) ELSE m)

\* lines 136-165: the operations and repeat blocks of row after the merge with lr
MergeOperations(row, lr) ==
    IF lr.is_work_even /\ ~HasWorkEven(row)
    THEN [row EXCEPT !.operations = <<WorkEvenOp>>, !.repeat_blocks = <<>>]
    ELSE IF /\ row.operations = <<>> /\ row.repeat_blocks = <<>>
            /\ (lr.operations # <<>> \/ lr.repeat_blocks # <<>>)
    THEN [row EXCEPT !.operations = BuildOperations(lr.operations),
                     !.repeat_blocks = BuildBlocks(lr.repeat_blocks)]
    ELSE row

\* lines 139-151 and 167-172: expected_sts is filled from lr when the row has none,
\* on the rows the work-even branch does not leave with continue
FillsExpected(row, lr) ==
    /\ ~(lr.is_work_even /\ ~HasWorkEven(row))
    /\ lr.expected_sts # <<>>
    /\ DOMAIN row.expected_sts = {}

\* the loop over the rows of a section (lines 130-175); acc = [rows, sizes] holds the
\* rows done and pattern.sizes, which map_sizes_to_counts may extend
RECURSIVE MergeLoop(_, _, _)
MergeLoop(rows, m, acc) ==
    IF rows = <<>> THEN acc
    ELSE IF Head(rows).number = None \/ Head(rows).number \notin DOMAIN m
    THEN MergeLoop(Tail(rows), m, [acc EXCEPT !.rows = Append(@, Head(rows))])
    ELSE IF FillsExpected(Head(rows), m[Head(rows).number])
    THEN MergeLoop(Tail(rows), m,
             [ rows  |-> Append(acc.rows,
                   [ MergeOperations(Head(rows), m[Head(rows).number]) EXCEPT
                       !.expected_sts =
                           map_sizes_to_counts(acc.sizes,
                               m[Head(rows).number].expected_sts).result ]),
               sizes |-> map_sizes_to_counts(acc.sizes,
                             m[Head(rows).number].expected_sts).sizes ])
    ELSE MergeLoop(Tail(rows), m,
             [acc EXCEPT !.rows =
                  Append(@, MergeOperations(Head(rows), m[Head(rows).number]))])

\* the loop over pattern.sections (line 129); acc = [sections, sizes]
RECURSIVE MergeSections(_, _, _)
MergeSections(sections, m, acc) ==
    IF sections = <<>> THEN acc
    ELSE MergeSections(Tail(sections), m,
             [ sections |-> Append(acc.sections,
                   [Head(sections) EXCEPT
                       !.rows = MergeLoop(@, m, [rows |-> <<>>, sizes |-> acc.sizes]).rows]),
               sizes    |-> MergeLoop(Head(sections).rows, m,
                                      [rows |-> <<>>, sizes |-> acc.sizes]).sizes ])

\* lines 109-115: sizes and cast_on_counts taken from the LLM when the Pattern has none
WithLlmSizes(p, llm_result) ==
    IF llm_result.sizes # <<>> /\ p.sizes = <<>>
    THEN [p EXCEPT !.sizes = llm_result.sizes] ELSE p

WithLlmCastOn(p, llm_result) ==
    IF llm_result.cast_on # <<>> /\ DOMAIN p.cast_on_counts = {}
    THEN [p EXCEPT !.cast_on_counts = map_sizes_to_counts(p.sizes, llm_result.cast_on).result,
                   !.sizes = map_sizes_to_counts(p.sizes, llm_result.cast_on).sizes]
    ELSE p

\* lines 177-185: a warning for every section name of the LLM the Pattern has not
LlmInsights(names, existing_names) ==
    SelectSeq([k \in DOMAIN names |-> [type |-> "llm_insight", message |-> names[k]]],
              LAMBDA w : w.message \notin existing_names)

\* lines 109-185 on a Pattern p that already has the LLM's sizes and cast-on counts
WithLlmRows(p, llm_result) ==
    [p EXCEPT
        !.sections = MergeSections(@, LlmRowMap(llm_result.rows, EmptyDict),
                                   [sections |-> <<>>, sizes |-> p.sizes]).sections,
        !.sizes    = MergeSections(p.sections, LlmRowMap(llm_result.rows, EmptyDict),
                                   [sections |-> <<>>, sizes |-> p.sizes]).sizes,
        !.warnings = @ \o LlmInsights(llm_result.sections,
                                      {p.sections[s].name : s \in DOMAIN p.sections})]

\* steps_by_after (lines 191-212): the steps with cast_on_extra > 0, by after_row
RECURSIVE StepsByAfter(_, _)
StepsByAfter(between_steps, m) ==
    IF between_steps = <<>> THEN m
    ELSE StepsByAfter(Tail(between_steps),
             IF /\ Head(between_steps).after_row # None
                /\ Head(between_steps).cast_on_extra # None
                /\ Head(between_steps).cast_on_extra > 0
             THEN Put(m, Head(between_steps).after_row,
                      Append(Get(m, Head(between_steps).after_row, <<>>),
                             Head(between_steps)))
             ELSE m)

\* the keywords of Row(...) at lines 221-224
ExtraRowKw(step) ==
    [ raw_text      |-> IF step.description # "" THEN step.description
                        ELSE "Cast on more sts",
      cast_on_extra |-> step.cast_on_extra ]

\* the steps to insert after row
StepsAfter(row, steps_by_after) ==
    IF row.number # None /\ row.number \in DOMAIN steps_by_after
    THEN steps_by_after[row.number] ELSE <<>>

\* new_rows of a section (lines 215-225)
RECURSIVE InsertLoop(_, _)
InsertLoop(rows, steps_by_after) ==
    IF rows = <<>> THEN <<>>
    ELSE <<Head(rows)>>
             \o [k \in DOMAIN StepsAfter(Head(rows), steps_by_after) |->
                    RowWith(ExtraRowKw(StepsAfter(Head(rows), steps_by_after)[k]))]
             \o InsertLoop(Tail(rows), steps_by_after)

\* Row(...) at line 221 raises TypeError for a step of some row
InsertRaises(rows, steps_by_after) ==
    \E k \in DOMAIN rows :
        \E j \in DOMAIN StepsAfter(rows[k], steps_by_after) :
            RowInitRaises(ExtraRowKw(StepsAfter(rows[k], steps_by_after)[j]))

\* lines 214-228 on the merged Pattern p: the Pattern as the call leaves it, and
\* whether the call raised
InsertSteps(p, steps_by_after) ==
    IF InsertRaises(AllRows(p.sections), steps_by_after)
    THEN [pattern |-> p, raised |-> TRUE]
    ELSE [pattern |-> [p EXCEPT !.sections =
                          [s \in DOMAIN @ |->
                              [@[s] EXCEPT !.rows = InsertLoop(@, steps_by_after)]]],
          raised  |-> FALSE]

\* enhance_pattern_with_llm(pattern) when llm_parse_pattern returns llm_result
enhance_pattern_with_llm(p, llm_result) ==
    IF ~llm_result.available THEN [pattern |-> p, raised |-> FALSE]
    ELSE InsertSteps(WithLlmRows(WithLlmCastOn(WithLlmSizes(p, llm_result), llm_result),
                            llm_result),
                StepsByAfter(llm_result.between_steps, EmptyDict))

(***************************************************************************)
(* parser/text_extractor.py: clean_text.  A text is a list of units: a     *)
(* unit is a word, LF ("\n") or CR ("\r"); the words between two line      *)
(* breaks are one line, separated by spaces.                               *)
(***************************************************************************)

LF == "LF"
CR == "CR"

\* text.replace("\r\n", "\n").replace("\r", "\n")
RECURSIVE NormalizeNewlines(_)
NormalizeNewlines(text) ==
    IF text = <<>> THEN <<>>
    ELSE IF Head(text) = CR /\ Len(text) >= 2 /\ text[2] = LF
    THEN <<LF>> \o NormalizeNewlines(Tail(Tail(text)))
    ELSE IF Head(text) = CR THEN <<LF>> \o NormalizeNewlines(Tail(text))
    ELSE <<Head(text)>> \o NormalizeNewlines(Tail(text))

\* re.sub(r"\n{3,}", "\n\n", text): of a run of line breaks the last two are kept
RECURSIVE CollapseNewlines(_)
CollapseNewlines(text) ==
    IF text = <<>> THEN <<>>
    ELSE IF Len(text) >= 3 /\ text[1] = LF /\ text[2] = LF /\ text[3] = LF
    THEN CollapseNewlines(Tail(text))
    ELSE <<Head(text)>> \o CollapseNewlines(Tail(text))

\* text.split("\n"), every line stripped: the list of the lines, each the list of its
\* words; current holds the words of the line being read
RECURSIVE SplitLines(_, _)
SplitLines(text, current) ==
    IF text = <<>> THEN <<current>>
    ELSE IF Head(text) = LF THEN <<current>> \o SplitLines(Tail(text), <<>>)
    ELSE SplitLines(Tail(text), Append(current, Head(text)))

\* re.search(r"[.?!:]\s*$", current)
EndsSentence(current) == current[Len(current)] \in {"k2."}

\* _NEW_LINE_START.match(next_line)
NewLineStart(next_line) ==
    \/ next_line[1] \in {"Row"}
    \/ Len(next_line) >= 2 /\ next_line[1] = "Cast" /\ next_line[2] = "on"

\* _merge_continuation_lines: the outer loop over the lines left (lines 53-58, 70-72)
\* and the inner loop that appends the continuations of current (lines 60-69)
RECURSIVE OuterLines(_, _)
RECURSIVE InnerLines(_, _, _)
OuterLines(rest, out) ==
    IF rest = <<>> THEN out
    ELSE IF Head(rest) = <<>> THEN OuterLines(Tail(rest), out)
    ELSE InnerLines(Head(rest), Tail(rest), out)

\* the inner loop left after the first continuation it appends
InnerLinesOnce(current, rest, out) ==
    IF rest = <<>> THEN Append(out, current)
    ELSE IF Head(rest) = <<>> THEN InnerLines(current, Tail(rest), out)
    ELSE IF EndsSentence(current) \/ NewLineStart(Head(rest))
    THEN OuterLines(rest, Append(out, current))
    ELSE OuterLines(Tail(rest), Append(out, current \o Head(rest)))

InnerLines(current, rest, out) ==
    IF rest = <<>> THEN Append(out, current)
    ELSE IF Head(rest) = <<>> THEN InnerLines(current, Tail(rest), out)
    ELSE IF EndsSentence(current) \/ NewLineStart(Head(rest))
    THEN OuterLines(rest, Append(out, current))
    ELSE InnerLines(current \o Head(rest), Tail(rest), out)

\* "\n".join(out)
RECURSIVE JoinLines(_)
JoinLines(out) ==
    IF out = <<>> THEN <<>>
    ELSE IF Len(out) = 1 THEN Head(out)
    ELSE Head(out) \o <<LF>> \o JoinLines(Tail(out))

\* text.strip(): no line break at either end
RECURSIVE Strip(_)
Strip(text) ==
    IF text = <<>> THEN <<>>
    ELSE IF Head(text) \in {LF, CR} THEN Strip(Tail(text))
    ELSE IF text[Len(text)] \in {LF, CR} THEN Strip(SubSeq(text, 1, Len(text) - 1))
    ELSE text

\* _merge_continuation_lines(text)
_merge_continuation_lines(text) == JoinLines(OuterLines(SplitLines(text, <<>>), <<>>))

\* clean_text(text)
clean_text(text) ==
    Strip(_merge_continuation_lines(CollapseNewlines(NormalizeNewlines(text))))

(***************************************************************************)
(* One function called on its own.  arg holds the name of the function and *)
(* its arguments, ret the value it returns.                                *)
(***************************************************************************)

MaxCount == 2

\* the digits a token may end with
Digits == {None} \cup 0..MaxCount

\* the tokens _STITCH_PATTERN matches, and the one-word aliases
StitchTokens ==
    {Token(w, d) : w \in StitchOps, d \in Digits}
        \cup {Token(w, None) : w \in {"knit", "purl", "slip", "kfab"}}

\* tokens that are no stitch: a bare number, the word "marker", a filler word
OtherTokens == {Token("", d) : d \in 0..MaxCount} \cup {Token("marker", None), Token("st", None)}

\* the words of the tokens put between stars: one of every way to count a stitch
BlockWords == {"k", "k2tog", "cdd", "yo", "bo", "sm", "co"}

BlockTokens == {Token(w, d) : w \in BlockWords, d \in Digits}

\* the lists of one or two elements of S
OneOrTwo(S) == {<<a>> : a \in S} \cup {<<a, b>> : a \in S, b \in S}

\* the starred groups: "* ... * N times", "* ... * until K sts remain", "* ... * to end"
StarredGroups ==
    {Starred(inner, times, None) : inner \in OneOrTwo(BlockTokens), times \in 0..MaxCount}
        \cup {Starred(inner, None, until) :
                  inner \in OneOrTwo(BlockTokens), until \in 0..MaxCount}
        \cup {Starred(inner, None, None) :
                  inner \in OneOrTwo(BlockTokens) \cup {<<Token("sl", None),
                                                         Token("marker", None)>>}}

\* the instruction texts handed to parse_row_instructions
Instructions ==
    {Instruction(TRUE, <<>>, <<>>)}
        \cup {Instruction(FALSE, <<t>>, <<>>) : t \in StitchTokens}
        \cup {Instruction(FALSE, <<t, u>>, <<>>) :
                  t \in {Token(w, None) : w \in {"k", "knit", "p", "sl", "slip", "yo"}},
                  u \in OtherTokens}
        \cup {Instruction(FALSE, <<Token(q[1], None), Token(q[2], None)>>, <<>>) :
                  q \in {<<"yarn", "over">>, <<"bind", "off">>, <<"cast", "on">>}}
        \cup {Instruction(FALSE, <<>>, <<m>>) : m \in StarredGroups}

\* the op_dicts of the LLM's JSON
OpDicts ==
    {OpDict(op, count) :
        op \in {"k", "k2tog", "cdd", "yo", "m1p", "sm", "co", ""},
        count \in {JsonCount("absent", 0), JsonCount("other_str", 0),
                   JsonCount("numeric_str", MaxCount)}
                      \cup {JsonCount("int", n) : n \in 0..MaxCount}}

\* the block_dicts of the LLM's JSON
BlockDicts ==
    {BlockDict(ops, n, FALSE, None) : ops \in OneOrTwo(OpDicts), n \in 1..MaxCount}
        \cup {BlockDict(ops, None, to_end, None) :
                  ops \in OneOrTwo(OpDicts), to_end \in BOOLEAN}
        \cup {BlockDict(ops, None, FALSE, 0) : ops \in OneOrTwo(OpDicts)}

\* the rows of the Patterns handed to enhance_pattern_with_llm: with and without
\* parsed operations, with and without a number
MergeTemplates ==
    { Template([number |-> 1, raw_text |-> "Row 1: k2",
                operations |-> <<Operation("k", 2)>>], <<>>, FALSE, TRUE),
      Template([number |-> 1, raw_text |-> "Row 1: *k2tog* to end",
                repeat_blocks |-> <<RepeatBlock(<<K2TOG>>, None, TRUE, None)>>],
               <<>>, FALSE, TRUE),
      Template([number |-> 1, raw_text |-> "Row 1: knit to marker"], <<>>, FALSE, TRUE),
      Template([number |-> 1, raw_text |-> "Row 1: work even (6 sts)",
                operations |-> <<WorkEvenOp>>], <<6>>, FALSE, TRUE),
      Template([number |-> 2, raw_text |-> "Row 2: purl to marker"], <<>>, FALSE, TRUE),
      Template([raw_text |-> "work even until 5 in", is_repeat_ref |-> TRUE],
               <<>>, FALSE, TRUE) }

\* Patterns of one row, and of two rows the second of which is numbered 1 or 2
MergePatterns ==
    { EvalPattern(sizes, EmptyDict, templates, <<>>) :
        sizes \in {<<>>, <<"S">>},
        templates \in {<<t>> : t \in MergeTemplates}
            \cup {<<t, u>> : t \in MergeTemplates,
                             u \in {v \in MergeTemplates : v.stated = <<>> /\ v.kw.raw_text \in
                                        {"Row 1: k2", "Row 2: purl to marker"}}} }

\* the rows of the LLM's JSON
LlmRows ==
    { [ number        |-> number,
        operations    |-> operations,
        repeat_blocks |-> repeat_blocks,
        is_work_even  |-> is_work_even,
        expected_sts  |-> expected_sts ] :
        number \in {1, 2},
        operations \in {<<>>, <<OpDict("k2tog", JsonCount("int", 1))>>},
        repeat_blocks \in {<<>>, <<BlockDict(<<OpDict("yo", JsonCount("absent", 0))>>,
                                             2, FALSE, None)>>},
        is_work_even \in BOOLEAN,
        expected_sts \in {<<>>, <<7>>} }

\* the between_steps of the LLM's JSON
BetweenSteps ==
    { [after_row |-> after_row, cast_on_extra |-> cast_on_extra, description |-> ""] :
        after_row \in {1, 3}, cast_on_extra \in {None, 0, 2} } \
            { [after_row |-> 3, cast_on_extra |-> None, description |-> ""],
              [after_row |-> 3, cast_on_extra |-> 0, description |-> ""] }

\* the results of llm_parse_pattern
LlmResults ==
    { [ available     |-> available,
        sizes         |-> more.sizes,
        cast_on       |-> more.cast_on,
        sections      |-> more.sections,
        rows          |-> rows,
        between_steps |-> between_steps ] :
        available \in {TRUE},
        more \in { [sizes |-> <<>>, cast_on |-> <<>>, sections |-> <<>>],
                   [sizes |-> <<"M">>, cast_on |-> <<6>>, sections |-> <<"Main", "Sleeve">>] },
        rows \in {<<>>} \cup {<<lr>> : lr \in LlmRows},
        between_steps \in {<<>>} \cup {<<step>> : step \in BetweenSteps} }
      \cup { [ available |-> FALSE, sizes |-> <<>>, cast_on |-> <<>>, sections |-> <<>>,
               rows |-> <<>>, between_steps |-> <<>> ] }

MaxText == 5

\* the words of the texts: the start of a new block, the end of a sentence, and two
\* words that start a new block only when they stand together
TextWords == {"Row", "k2.", "Cast", "on"}

\* the texts handed to clean_text
Texts == UNION {[1..n -> TextWords \cup {LF, CR}] : n \in 0..MaxText}

MaxSts == 6

\* the repeat blocks handed to the evaluator, as the tokenizer builds them
EvalBlocks ==
    { StarredLoop(<<m>>)[1] :
        m \in { g \in StarredGroups :
                  \A k \in DOMAIN g.inner :
                      g.inner[k] \in { Token("k", None), Token("k", 2),
                                       Token("k2tog", None), Token("yo", None) } } }

\* the rows handed to calculate_row_stitches: one flat operation or none, and one or
\* two repeat blocks
BlockRows ==
    { RowWith([number |-> 1, operations |-> ops, repeat_blocks |-> blocks]) :
        ops \in {<<>>, <<Operation("k", 1)>>},
        blocks \in {<<b>> : b \in EvalBlocks}
            \cup {<<b, c>> : b \in EvalBlocks,
                             c \in {RepeatBlock(<<Operation("k", 1)>>, None, TRUE, None),
                                    RepeatBlock(<<Operation("k", 2)>>, 1, FALSE, None)}} }

\* a call of fn on args
Call(fn, args) == [fn |-> fn, args |-> args]

InitCall ==
    /\ pc = "call"
    /\ \/ \E text \in Instructions : arg = Call("parse_row_instructions", text)
       \/ \E d \in BlockDicts : arg = Call("_build_repeat_block", d)
       \/ \E text \in Texts : arg = Call("clean_text", text)
       \/ \E block \in EvalBlocks, available_sts \in 0..MaxSts :
              arg = Call("_calculate_repeat_block",
                         [block |-> block, available_sts |-> available_sts])
       \/ \E row \in BlockRows, starting_sts \in 0..MaxSts :
              arg = Call("calculate_row_stitches",
                         [row |-> row, starting_sts |-> starting_sts])
       \/ \E p \in MergePatterns, llm_result \in LlmResults :
              arg = Call("enhance_pattern_with_llm", [pattern |-> p, llm_result |-> llm_result])
    /\ ret = None
    /\ lines = <<>>
    /\ i = 0
    /\ current_section = 1
    /\ pattern = NewPattern(<<>>)

\* flat_ops, repeat_blocks = parse_row_instructions(text)
ParseRowInstructions ==
    /\ pc = "call"
    /\ arg.fn = "parse_row_instructions"
    /\ ret' = parse_row_instructions(arg.args)
    /\ pc' = "returned"
    /\ UNCHANGED <<lines, i, current_section, pattern, arg>>

\* new_blocks built from one block_dict (enhance_pattern_with_llm, lines 160-164)
BuildRepeatBlock ==
    /\ pc = "call"
    /\ arg.fn = "_build_repeat_block"
    /\ ret' = BuildBlocks(<<arg.args>>)
    /\ pc' = "returned"
    /\ UNCHANGED <<lines, i, current_section, pattern, arg>>

\* pattern = enhance_pattern_with_llm(pattern), llm_parse_pattern returning
\* arg.args.llm_result; ret is the Pattern as the call leaves it
Enhance ==
    /\ pc = "call"
    /\ arg.fn = "enhance_pattern_with_llm"
    /\ ret' = enhance_pattern_with_llm(arg.args.pattern, arg.args.llm_result).pattern
    /\ pc' = IF enhance_pattern_with_llm(arg.args.pattern, arg.args.llm_result).raised
             THEN "raised" ELSE "returned"
    /\ UNCHANGED <<lines, i, current_section, pattern, arg>>

\* _run_pipeline after the call of enhance_pattern_with_llm: llm_used = True when it
\* returned, the except clause when it raised; either way pattern names the object
\* the call worked on, which validate_pattern gets next
AfterEnhance ==
    /\ pc \in {"returned", "raised"}
    /\ arg.fn = "enhance_pattern_with_llm"
    /\ pattern' = ret
    /\ ret' = [llm_used |-> pc = "returned"]
    /\ pc' = IF pc = "raised" THEN "fallback" ELSE "enhanced"
    /\ UNCHANGED <<lines, i, current_section, arg>>

\* raw_text = clean_text(raw_text)
CleanText ==
    /\ pc = "call"
    /\ arg.fn = "clean_text"
    /\ ret' = clean_text(arg.args)
    /\ pc' = "returned"
    /\ UNCHANGED <<lines, i, current_section, pattern, arg>>

\* block_change, block_error = _calculate_repeat_block(block, available_sts)
CalculateRepeatBlock ==
    /\ pc = "call"
    /\ arg.fn = "_calculate_repeat_block"
    /\ ret' = _calculate_repeat_block(arg.args.block, arg.args.available_sts)
    /\ pc' = "returned"
    /\ UNCHANGED <<lines, i, current_section, pattern, arg>>

\* calculate_row_stitches, lines 74-93, for a row worked stitch by stitch: ret holds
\* remaining_for_repeats, the blocks still to come and net_change, errors, warnings
StartBlocks ==
    /\ pc = "call"
    /\ arg.fn = "calculate_row_stitches"
    /\ ~EarlyReturn(arg.args.row)
    /\ ret' = [ remaining_for_repeats |->
                    arg.args.starting_sts - SumAccounted(arg.args.row.operations),
                blocks |-> arg.args.row.repeat_blocks,
                acc    |-> [ net_change |-> SumFlatEffect(arg.args.row.operations),
                             errors     |-> <<>>,
                             warnings   |-> <<>> ] ]
    /\ pc' = "blocks"
    /\ UNCHANGED <<lines, i, current_section, pattern, arg>>

\* one iteration of the loop over row.repeat_blocks (lines 95-112)
BlockStep ==
    /\ pc = "blocks"
    /\ ret.blocks # <<>>
    /\ ret' = [ remaining_for_repeats |->
                    RemainingAfter(Head(ret.blocks), ret.remaining_for_repeats),
                blocks |-> Tail(ret.blocks),
                acc    |-> Accumulate(ret.acc,
                               _calculate_repeat_block(Head(ret.blocks),
                                                       ret.remaining_for_repeats)) ]
    /\ UNCHANGED <<pc, lines, i, current_section, pattern, arg>>

\* lines 114-145: the loop is over, calculate_row_stitches returns
BlocksDone ==
    /\ pc = "blocks"
    /\ ret.blocks = <<>>
    /\ ret' = Reconcile(arg.args.row, arg.args.starting_sts, "S", ret.acc)
    /\ pc' = "returned"
    /\ UNCHANGED <<lines, i, current_section, pattern, arg>>

NextCall ==
    \/ ParseRowInstructions
    \/ BuildRepeatBlock
    \/ Enhance
    \/ AfterEnhance
    \/ CleanText
    \/ CalculateRepeatBlock
    \/ StartBlocks
    \/ BlockStep
    \/ BlocksDone

SpecCall == InitCall /\ [][NextCall]_vars

(***************************************************************************)
(* What validate_pattern leaves behind, read off the returned Pattern      *)
(***************************************************************************)

\* validate_pattern has returned
Validated == pc = "done"

\* the rows of the returned Pattern in source order
Rows == AllRows(pattern.sections)

\* the count row k starts from under size: the count stored on the row before it, the
\* cast-on count for the first row
StartOf(rows, k, size) ==
    IF k = 1 THEN Get(pattern.cast_on_counts, size, 0) ELSE rows[k - 1].calculated_sts[size]

\* the net change of a row worked from start stitches
NetChange(row, start) ==
    IF row.is_repeat_ref THEN 0
    ELSE IF row.cast_on_extra # None THEN row.cast_on_extra
    ELSE IF HasWorkEven(row) THEN 0
    ELSE RowArithmetic(row, start).net_change

\* the sum of the net changes of rows 1..k under size
RECURSIVE SumNet(_, _, _)
SumNet(rows, k, size) ==
    IF k = 0 THEN 0
    ELSE NetChange(rows[k], StartOf(rows, k, size)) + SumNet(rows, k - 1, size)

\* a Row 0 that carries expected_sts[size]
Row0WithExpected(row, size) == row.number = 0 /\ size \in DOMAIN row.expected_sts

C2_NeverAborts == pc # "raised"

(***************************************************************************)
(* Mismatch errors of a row and a size                                     *)
(***************************************************************************)

\* the two rules of lines 127-130 under which a stated count is taken to be stale
Suppressed(expected, start, net) ==
    \/ expected = start /\ net # 0
    \/ net = 0 /\ expected < start + net

\* neither rule applies and the row's ending count differs from the stated one
Due(expected, start, net) == ~Suppressed(expected, start, net) /\ start + net # expected

\* the mismatch messages among the row's own errors for size
MismatchNotes(row, size) ==
    {j \in DOMAIN row.errors :
        row.errors[j].size = size /\ row.errors[j].message.kind \in MismatchKinds}

\* the mismatch errors of pattern.errors that name a row by number and text, and size
MismatchIssues(number, raw_text, size) ==
    {j \in DOMAIN pattern.errors :
        /\ pattern.errors[j].type = "stitch_count"
        /\ pattern.errors[j].row = number
        /\ pattern.errors[j].size = size
        /\ pattern.errors[j].raw_text = raw_text
        /\ pattern.errors[j].line = None
        /\ pattern.errors[j].message.kind \in MismatchKinds}

\* the mismatch messages of all rows with this number and text, as (row, message) pairs
MismatchNotePairs(number, raw_text, size) ==
    UNION { {<<k, j>> : j \in MismatchNotes(Rows[k], size)} :
              k \in {r \in DOMAIN Rows :
                        Rows[r].number = number /\ Rows[r].raw_text = raw_text} }

\* pattern.errors holds one mismatch error per mismatch message of the rows it names
IssuesMatchNotes(number, raw_text, size) ==
    Cardinality(MismatchIssues(number, raw_text, size))
        = Cardinality(MismatchNotePairs(number, raw_text, size))

\* row k has exactly n mismatch errors for size, on the row and in pattern.errors
HasMismatches(k, size, n) ==
    /\ Cardinality(MismatchNotes(Rows[k], size)) = n
    /\ IssuesMatchNotes(Rows[k].number, Rows[k].raw_text, size)

\* row k states a count for size, neither rule applies and its ending count differs
MismatchDue(k, size) ==
    /\ Rows[k].number # 0
    /\ size \in DOMAIN Rows[k].expected_sts
    /\ Due(Rows[k].expected_sts[size], StartOf(Rows, k, size),
           NetChange(Rows[k], StartOf(Rows, k, size)))

StaleBy(k, size, rule) ==
    /\ Rows[k].number # 0
    /\ size \in DOMAIN Rows[k].expected_sts
    /\ IF rule = 1
       THEN /\ Rows[k].expected_sts[size] = StartOf(Rows, k, size)
            /\ NetChange(Rows[k], StartOf(Rows, k, size)) # 0
       ELSE /\ NetChange(Rows[k], StartOf(Rows, k, size)) = 0
            /\ Rows[k].expected_sts[size] < StartOf(Rows, k, size)

\* C4: for a row with number != 0 and a size S with expected_sts[S], no mismatch
\* error is emitted when expected equals the starting count and net_change != 0, nor
\* when net_change == 0 and expected < ending.
C4_StaleSuppressed ==
    Validated =>
        \A k \in DOMAIN Rows : \A size \in Elems(pattern.sizes) :
            StaleBy(k, size, 1) \/ StaleBy(k, size, 2) => HasMismatches(k, size, 0)

\* a Pattern in which both rules apply: one row states its starting count and changes
\* it, another changes nothing and states less than it ends with
C4_Witness ==
    /\ Validated
    /\ \E k \in DOMAIN Rows : \E size \in Elems(pattern.sizes) : StaleBy(k, size, 1)
    /\ \E k \in DOMAIN Rows : \E size \in Elems(pattern.sizes) :
          StaleBy(k, size, 2) /\ ~EarlyReturn(Rows[k])

\* a repeat-to-end or repeat-until block that consumes no stitch per repeat
ConsumesNothing(block) ==
    /\ block.repeat_count = None
    /\ block.repeat_to_end \/ block.until_sts_remain # None
    /\ stitches_consumed_per_repeat(block) = 0

\* the 'infinite loop' messages among notes for size
InfiniteLoopNotes(notes, size) ==
    {j \in DOMAIN notes : notes[j].size = size /\ notes[j].message.kind = "infinite_loop"}

\* C5: a repeat-to-end or repeat-until-K block whose consumed-per-repeat is 0
\* evaluates to net change 0 together with an 'infinite loop' message, which is
\* recorded as an error, not a warning, for the row and size.
C5_InfiniteLoopReported ==
    Validated =>
        \A k \in DOMAIN Rows : \A size \in Elems(pattern.sizes) :
            /\ ~EarlyReturn(Rows[k])
            /\ ~Row0WithExpected(Rows[k], size)
            /\ \E b \in DOMAIN Rows[k].repeat_blocks :
                  ConsumesNothing(Rows[k].repeat_blocks[b])
            => /\ InfiniteLoopNotes(Rows[k].errors, size) # {}
               /\ InfiniteLoopNotes(Rows[k].warnings, size) = {}

(***************************************************************************)
(* Row 0 as the authority for the starting count                           *)
(***************************************************************************)

\* the notes among notes (row.errors or row.warnings) for size
NotesFor(notes, size) == {j \in DOMAIN notes : notes[j].size = size}

\* the entries of issues (pattern.errors or pattern.warnings) that the row loop and the
\* cross-row check add for row k and size
RowIssues(issues, k, size) ==
    {j \in DOMAIN issues :
        /\ issues[j].line = None
        /\ issues[j].row = Rows[k].number
        /\ issues[j].size = size
        /\ issues[j].raw_text = Rows[k].raw_text}

\* the entries of pattern.errors that a document-wide assertion adds for row k and size
AssertionIssues(k, size) ==
    {j \in DOMAIN pattern.errors :
        /\ pattern.errors[j].line # None
        /\ pattern.errors[j].row = Rows[k].number
        /\ pattern.errors[j].size = size
        /\ AppliedRow(RowLineSts(Rows, <<>>), pattern.errors[j].line, <<>>) = <<Rows[k]>>}

\* row k is stored with its stated count and the row after it is worked from that count
Row0IsAuthority(k, size) ==
    /\ Rows[k].calculated_sts[size] = Rows[k].expected_sts[size]
    /\ k < Len(Rows) =>
          Rows[k + 1].calculated_sts[size] =
              calculate_row_stitches(Rows[k + 1], Rows[k].expected_sts[size], size).ending

\* the row loop and the cross-row check leave nothing about row k and size
Row0Silent(k, size) ==
    /\ NotesFor(Rows[k].errors, size) = {}
    /\ NotesFor(Rows[k].warnings, size) = {}
    /\ RowIssues(pattern.errors, k, size) = {}
    /\ RowIssues(pattern.warnings, k, size) = {}

FrameOfRow(row) ==
    [f \in DOMAIN row \ {"calculated_sts", "errors", "warnings"} |-> row[f]]

\* the sections with their names, their rows in order, each row without those fields
FrameOfSections(sections) ==
    [s \in DOMAIN sections |->
        [ name |-> sections[s].name,
          rows |-> [r \in DOMAIN sections[s].rows |-> FrameOfRow(sections[s].rows[r])] ]]

\* the Pattern without its sizes, cast-on counts, sections and issue lists
FrameOfPattern(p) ==
    [f \in DOMAIN p \ {"sizes", "cast_on_counts", "sections", "errors", "warnings"} |-> p[f]]

\* the sections, the rows' order and every row's fields other than calculated_sts,
\* errors and warnings are as they were handed in
RestUnchanged ==
    /\ FrameOfSections(pattern.sections) = FrameOfSections(arg.sections)
    /\ FrameOfPattern(pattern) = FrameOfPattern(arg)

\* C7 as stated: validate_pattern changes nothing of the Pattern except the pattern's
\* errors and warnings and each row's calculated_sts, errors and warnings; sizes,
\* cast_on_counts, the sections, their row order and every row's operations, repeat
\* blocks and expected_sts are the same after the call as before it.
C7_FrameStrict ==
    Validated =>
        /\ pattern.sizes = arg.sizes
        /\ pattern.cast_on_counts = arg.cast_on_counts
        /\ RestUnchanged

\* C7 amended: the same, except that empty sizes become ["Size1"] and empty
\* cast_on_counts become 0 for every size; non-empty sizes and cast_on_counts are
\* the same after the call as before it.
C7_FrameWithDefaults ==
    Validated =>
        /\ pattern.sizes = IF arg.sizes = <<>> THEN <<"Size1">> ELSE arg.sizes
        /\ pattern.cast_on_counts =
              IF DOMAIN arg.cast_on_counts = {}
              THEN [sz \in Elems(pattern.sizes) |-> 0] ELSE arg.cast_on_counts
        /\ RestUnchanged

\* a Pattern handed in without sizes and cast-on counts, whose rows get counts and issues
C7_Witness ==
    /\ Validated
    /\ arg.sizes = <<>>
    /\ DOMAIN arg.cast_on_counts = {}
    /\ pattern.errors # <<>>
    /\ \E k \in DOMAIN Rows : Rows[k].errors # <<>> /\ Rows[k].calculated_sts # EmptyDict

(***************************************************************************)
(* Cast-on lines                                                           *)
(***************************************************************************)

\* the next line of the document reaches the cast-on branch of parse_pattern with at
\* least one parsed number
AtCastOnLine ==
    /\ pc = "parse"
    /\ i < Len(lines)
    /\ lines[i + 1].co
    /\ lines[i + 1].co_counts # <<>>
    /\ ~lines[i + 1].sizes
    /\ lines[i + 1].meta = ""
    /\ ~lines[i + 1].notes

\* the rows of the current section before and after the step
RowsBefore == pattern.sections[current_section].rows
RowsAfter == pattern'.sections[current_section].rows

\* the step appends one row to the current section and parsing goes on
RowAppended == pc' = "parse" /\ Len(RowsAfter) = Len(RowsBefore) + 1

\* the step treats the line as the primary cast-on
PrimaryCastOn ==
    /\ RowAppended
    /\ DOMAIN pattern'.cast_on_counts # {}
    /\ RowsAfter[Len(RowsAfter)].number = 0
    /\ RowsAfter[Len(RowsAfter)].expected_sts = pattern'.cast_on_counts
    /\ RowsAfter[Len(RowsAfter)].calculated_sts = pattern'.cast_on_counts

\* the step treats the line as an extra cast-on of its one number
ExtraCastOn ==
    /\ RowAppended
    /\ pattern'.cast_on_counts = pattern.cast_on_counts
    /\ RowsAfter[Len(RowsAfter)].cast_on_extra = lines[i + 1].co_counts[1]

\* C8: a cast-on line with at least one parsed number is treated as the primary
\* cast-on (it sets cast_on_counts and appends a synthetic Row 0 with expected_sts =
\* calculated_sts = cast_on_counts), except when cast_on_counts is already populated
\* and the line carries exactly one number: then it appends a Row with cast_on_extra
\* set to that number.
C8_CastOnClassified ==
    [][AtCastOnLine =>
          IF DOMAIN pattern.cast_on_counts # {} /\ Len(lines[i + 1].co_counts) = 1
          THEN ExtraCastOn ELSE PrimaryCastOn]_vars

(***************************************************************************)
(* Extra cast-on rows                                                      *)
(***************************************************************************)

\* s without its k-th element
RemoveAt(s, k) == SubSeq(s, 1, k - 1) \o SubSeq(s, k + 1, Len(s))

\* the rows validate_pattern returns for the same Pattern without its row k
RowsWithout(k) ==
    AllRows(validate_pattern(
                [arg EXCEPT !.sections = SectionsOf(RemoveAt(AllRows(arg.sections), k))]
            ).sections)

\* row k is an extra cast-on in a Pattern whose primary cast-on has been seen
IsExtraCastOn(k) == Rows[k].cast_on_extra # None /\ DOMAIN arg.cast_on_counts # {}

\* the extra cast-on row ends cast_on_extra above the count it starts from
ExtraRowEnds(k, size) ==
    Rows[k].calculated_sts[size] = StartOf(Rows, k, size) + Rows[k].cast_on_extra

\* row j stands cast_on_extra of row k above what it is in without
ShiftedBy(k, j, size, without) ==
    Rows[j].calculated_sts[size]
        = without[j - 1].calculated_sts[size] + Rows[k].cast_on_extra

\* row m has no repeat block, is no Row 0 stating a count for size, and without the
\* extra cast-on its count does not fall below 0
CarriesShift(m, size, without) ==
    /\ Rows[m].repeat_blocks = <<>>
    /\ ~Row0WithExpected(Rows[m], size)
    /\ StartOf(without, m - 1, size)
          + NetChange(Rows[m], StartOf(without, m - 1, size)) >= 0

Assertions == Elems(extract_all_stitch_assertions(pattern.raw_text))

\* the rows with a source line at or before line
RowsUpTo(line) ==
    {k \in DOMAIN Rows : Rows[k].line_number # None /\ Rows[k].line_number <= line}

\* the last of them by source line
ApplicableRow(line) ==
    CHOOSE k \in RowsUpTo(line) :
        \A other \in RowsUpTo(line) : Rows[other].line_number <= Rows[k].line_number

\* the assertion is checked at all: a row applies, it stands on another line, and the
\* number of asserted counts is |sizes| or 1
Checked(a) ==
    /\ RowsUpTo(a.line) # {}
    /\ Rows[ApplicableRow(a.line)].line_number # a.line
    /\ Len(a.counts) = Len(pattern.sizes) \/ Len(a.counts) = 1

\* the count asserted for the s-th size: positional when the list has |sizes| counts,
\* the one count otherwise
AssertedFor(a, s) == IF Len(a.counts) = Len(pattern.sizes) THEN a.counts[s] ELSE a.counts[1]

\* the errors of pattern.errors that stem from the assertion on line, for size
ErrorsAt(line, size) ==
    {j \in DOMAIN pattern.errors :
        pattern.errors[j].line = line /\ pattern.errors[j].size = size}

\* the one error the assertion a must leave for the s-th size
ExpectedError(a, s) ==
    Issue("stitch_count", pattern.sizes[s], Rows[ApplicableRow(a.line)],
          Msg("stated_count", AssertedFor(a, s),
              Rows[ApplicableRow(a.line)].calculated_sts[pattern.sizes[s]]),
          a.raw_text, a.line)

\* the assertion a differs from the applicable row's count for the s-th size
Differs(a, s) ==
    AssertedFor(a, s) # Rows[ApplicableRow(a.line)].calculated_sts[pattern.sizes[s]]

C11_ExpectedKeysAreSizes ==
    Validated =>
        \A k \in DOMAIN Rows :
            DOMAIN Rows[k].expected_sts # {} =>
                DOMAIN Rows[k].expected_sts = Elems(pattern.sizes)

(***************************************************************************)
(* Operations and repeat blocks as the tokenizer and the LLM merge build   *)
(* them                                                                    *)
(***************************************************************************)

\* the function called has returned
Returned(fn) == pc = "returned" /\ arg.fn = fn

\* the repeat blocks the tokenizer or the LLM merge has returned
BuiltBlocks ==
    IF Returned("parse_row_instructions") THEN ret.repeat_blocks
    ELSE IF Returned("_build_repeat_block") THEN ret
    ELSE <<>>

\* |min(0, n)|
Removed(n) == IF n < 0 THEN -n ELSE 0

\* C12: every repeat block, built by the tokenizer or from LLM output, consumes per
\* repeat at least as many stitches as it removes per repeat:
\* consumed-per-repeat >= |min(0, net-per-repeat)|.
C12_ConsumesWhatItRemoves ==
    \A k \in DOMAIN BuiltBlocks :
        stitches_consumed_per_repeat(BuiltBlocks[k])
            >= Removed(net_stitches_per_repeat(BuiltBlocks[k]))

\* the canonical effect table: the net effect and the stitches consumed of one
\* instance of the operation named name
TableEffect(name) ==
    CASE name \in {"k", "p", "sl", "sm", "pm", "work_even"} -> 0
      [] name \in {"k2tog", "ssk", "p2tog", "ssp", "bo"} -> -1
      [] name \in {"sk2p", "s2kp", "k3tog", "p3tog", "cdd"} -> -2
      [] name \in {"yo", "m1", "m1l", "m1r", "kfb", "pfb", "co"} -> 1

TableConsumed(name) ==
    CASE name \in {"sm", "pm", "yo", "m1", "m1l", "m1r", "co", "work_even"} -> 0
      [] name \in {"k", "p", "sl", "kfb", "pfb", "bo"} -> 1
      [] name \in {"k2tog", "ssk", "p2tog", "ssp"} -> 2
      [] name \in {"sk2p", "s2kp", "k3tog", "p3tog", "cdd"} -> 3

TableNames ==
    { "k", "p", "sl", "sm", "pm", "k2tog", "ssk", "p2tog", "ssp", "sk2p", "s2kp",
      "k3tog", "p3tog", "cdd", "yo", "m1", "m1l", "m1r", "kfb", "pfb", "bo", "co" }

\* the tokenizer was called on the single token name, or on "work even" when name
\* is work_even, and has returned
TokenizedName(name) ==
    /\ Returned("parse_row_instructions")
    /\ IF name = "work_even" THEN arg.args.work_even
       ELSE /\ ~arg.args.work_even
            /\ arg.args.starred = <<>>
            /\ Len(arg.args.flat) = 1
            /\ arg.args.flat[1].word = name

\* C13: for every operation name of the canonical effect table, the Operation the
\* tokenizer builds has the table's per-instance net effect and stitches consumed.
C13_TableValues ==
    \A name \in TableNames \cup {"work_even"} :
        TokenizedName(name) =>
            /\ Len(ret.flat_ops) = 1
            /\ ret.flat_ops[1].count_effect = TableEffect(name)
            /\ ret.flat_ops[1].stitches_consumed = TableConsumed(name)

\* the sum over the operations of (stitches_consumed x count)
RECURSIVE SumConsumed(_)
SumConsumed(ops) ==
    IF ops = <<>> THEN 0
    ELSE Head(ops).stitches_consumed * Head(ops).count + SumConsumed(Tail(ops))

\* C14: the consumed-per-repeat the evaluator uses for a block is the sum over the
\* block's operations of (per-instance stitches_consumed x count), so an operation
\* whose stitches_consumed is 0 contributes 0.
C14_ConsumedIsSum ==
    \A k \in DOMAIN BuiltBlocks :
        stitches_consumed_per_repeat(BuiltBlocks[k])
            = SumConsumed(BuiltBlocks[k].operations)

(***************************************************************************)
(* The LLM merge                                                           *)
(***************************************************************************)

\* enhance_pattern_with_llm has run, to its return or to an exception
Enhanced == pc \in {"returned", "raised"} /\ arg.fn = "enhance_pattern_with_llm"

\* the rows of the Pattern before the merge, and the same rows after it (the rows
\* the merge inserts carry cast_on_extra; no row handed to it does)
RowsBeforeMerge == AllRows(arg.args.pattern.sections)

RowsAfterMerge == SelectSeq(AllRows(ret.sections), LAMBDA r : r.cast_on_extra = None)

\* the deterministic parser produced an Operation or a RepeatBlock for the row
HasDetOps(row) == row.operations # <<>> \/ row.repeat_blocks # <<>>

\* C15: the LLM merge never overwrites deterministic results: a row for which the
\* deterministic parser produced at least one Operation or RepeatBlock has the same
\* operations and repeat_blocks after enhance_pattern_with_llm as before, whatever
\* the LLM returned for its number.
C15_DeterministicKept ==
    Enhanced =>
        /\ Len(RowsAfterMerge) = Len(RowsBeforeMerge)
        /\ \A k \in DOMAIN RowsBeforeMerge :
               HasDetOps(RowsBeforeMerge[k]) =>
                   /\ RowsAfterMerge[k].operations = RowsBeforeMerge[k].operations
                   /\ RowsAfterMerge[k].repeat_blocks = RowsBeforeMerge[k].repeat_blocks

\* the between_steps of the LLM's JSON with cast_on_extra > 0 that name a row of
\* the Pattern
StepsDue ==
    SelectSeq(arg.args.llm_result.between_steps,
              LAMBDA step : /\ step.cast_on_extra # None
                            /\ step.cast_on_extra > 0
                            /\ \E k \in DOMAIN RowsBeforeMerge :
                                   RowsBeforeMerge[k].number = step.after_row)

\* the positions of the synthetic rows in the Pattern after the merge
SyntheticAt == {k \in DOMAIN AllRows(ret.sections) : AllRows(ret.sections)[k].cast_on_extra # None}

\* C16: for every between_step with cast_on_extra > 0 the merge inserts exactly one
\* synthetic Row with that cast_on_extra, immediately after the row whose number
\* equals after_row, and no synthetic row anywhere else, also when several rows
\* share that number.
C16_OneSyntheticRowPerStep ==
    Enhanced =>
        /\ Cardinality(SyntheticAt) = Len(StepsDue)
        /\ \A j \in DOMAIN StepsDue :
               \E k \in SyntheticAt :
                   /\ AllRows(ret.sections)[k].cast_on_extra = StepsDue[j].cast_on_extra
                   /\ k > 1
                   /\ AllRows(ret.sections)[k - 1].number = StepsDue[j].after_row

(***************************************************************************)
(* The text channel                                                        *)
(***************************************************************************)

\* the lines of a text that hold a word
WordLines(text) == SelectSeq(SplitLines(text, <<>>), LAMBDA line : line # <<>>)

\* C17: the text normalizer is idempotent, clean_text(clean_text(t)) = clean_text(t),
\* so that the pipeline run again on the raw text stored in the Pattern of the
\* first run parses and validates the same text.
C17_CleanTextIdempotent ==
    Returned("clean_text") => clean_text(ret) = ret

\* clean_text has merged a continuation line and kept a line break
C17_Witness ==
    /\ Returned("clean_text")
    /\ Len(WordLines(ret)) < Len(WordLines(NormalizeNewlines(arg.args)))
    /\ Len(WordLines(ret)) >= 2
    /\ clean_text(ret) = ret

(***************************************************************************)
(* Repeat blocks under the evaluator                                       *)
(***************************************************************************)

\* _calculate_repeat_block has returned for a block of this expansion mode
CalledBlock == arg.args.block

FixedCountReturned ==
    Returned("_calculate_repeat_block") /\ CalledBlock.repeat_count # None

UntilReturned ==
    /\ Returned("_calculate_repeat_block")
    /\ CalledBlock.repeat_count = None
    /\ CalledBlock.until_sts_remain # None

\* C, the net per repeat, and workable = available - K of the call
ConsumedPer == stitches_consumed_per_repeat(CalledBlock)

NetPer == net_stitches_per_repeat(CalledBlock)

Workable == arg.args.available_sts - CalledBlock.until_sts_remain

\* C18: a fixed-count block with count N and consumed-per-repeat C, A stitches
\* available, returns net 0 and an error when C x N > A, and otherwise
\* net-per-repeat x N with no message, for every C >= 0 (a block of yo alone
\* repeated N times contributes +N).
C18_FixedCount ==
    FixedCountReturned =>
        IF ConsumedPer * CalledBlock.repeat_count > arg.args.available_sts
        THEN ret.net = 0 /\ ret.msg.kind = "fixed_overrun"
        ELSE ret.net = NetPer * CalledBlock.repeat_count /\ ret.msg = NoMsg

\* C19 as stated: for an until-K block with C > 0, workable < 0 gives net 0 and an
\* error; workable >= 0 gives net-per-repeat x floor(workable / C), with a "does not
\* divide evenly" warning whenever workable mod C # 0, also when the floor is 0.
C19_WarnsOnEveryLeftover ==
    UntilReturned /\ ConsumedPer > 0 =>
        IF Workable < 0
        THEN ret.net = 0 /\ ret.msg.kind = "until_short"
        ELSE /\ ret.net = NetPer * (Workable \div ConsumedPer)
             /\ ret.msg.kind = "until_not_even" <=> Workable % ConsumedPer # 0

\* C19, amended: the warning is produced when workable mod C # 0 and at least one
\* repeat fits (floor(workable / C) >= 1); when no repeat fits the block returns net 0
\* and no message at all.
C19_WarnsAfterOneRepeat ==
    UntilReturned /\ ConsumedPer > 0 =>
        IF Workable < 0
        THEN ret.net = 0 /\ ret.msg.kind = "until_short"
        ELSE /\ ret.net = NetPer * (Workable \div ConsumedPer)
             /\ IF Workable % ConsumedPer # 0 /\ Workable \div ConsumedPer >= 1
                THEN ret.msg = Msg("until_not_even", Workable, Workable % ConsumedPer)
                ELSE ret.msg = NoMsg

\* an until-K block has run at least once, with stitches left over, and warns
C19_Witness ==
    /\ UntilReturned
    /\ ConsumedPer > 0
    /\ CalledBlock.until_sts_remain > 0
    /\ Workable \div ConsumedPer >= 1
    /\ Workable % ConsumedPer # 0
    /\ NetPer # 0
    /\ ret.msg.kind = "until_not_even"

\* the repeats a block executes with remaining stitches left for it
Executed(block, remaining, consumed_per) ==
    IF consumed_per = 0 THEN 0
    ELSE IF block.repeat_count # None
    THEN IF consumed_per * block.repeat_count > remaining THEN 0 ELSE block.repeat_count
    ELSE IF block.until_sts_remain # None
    THEN IF remaining - block.until_sts_remain < 0 THEN 0
         ELSE (remaining - block.until_sts_remain) \div consumed_per
    ELSE remaining \div consumed_per

\* C20: over one repeat block, the stitches remaining for the next block are the
\* remaining before it minus (repeats the block executed x its consumed-per-repeat):
\* a fixed-count block that failed leaves remaining unchanged, an until-K block
\* with a leftover leaves K + leftover.
C20_RemainingDecrement ==
    [][BlockStep =>
          ret'.remaining_for_repeats =
              ret.remaining_for_repeats
                - Executed(Head(ret.blocks), ret.remaining_for_repeats,
                           stitches_consumed_per_repeat(Head(ret.blocks)))
                    * stitches_consumed_per_repeat(Head(ret.blocks))]_vars

(***************************************************************************)
(* Rows that leave the count alone                                         *)
(***************************************************************************)

PrevRow(k) ==
    IF \E j \in 1..(k - 1) : ~Rows[j].is_repeat_ref
    THEN CHOOSE j \in 1..(k - 1) :
             ~Rows[j].is_repeat_ref /\ \A m \in (j + 1)..(k - 1) : Rows[m].is_repeat_ref
    ELSE 0

\* row k has nothing parsed and states no count for size
NothingParsed(k, size) ==
    /\ ~Rows[k].is_repeat_ref
    /\ Rows[k].operations = <<>>
    /\ Rows[k].repeat_blocks = <<>>
    /\ size \notin DOMAIN Rows[k].expected_sts

\* the conditions under which a consistency warning is due for row k and size
WarningDue(k, size) ==
    /\ NothingParsed(k, size)
    /\ PrevRow(k) # 0
    /\ Rows[k].calculated_sts[size] # Rows[PrevRow(k)].calculated_sts[size]

\* the consistency warnings of the returned Pattern, in the order they were appended
ConsistencyWarnings == SelectSeq(pattern.warnings, LAMBDA w : w.type = "consistency")

\* the pairs (size, row) in the order of the check: sizes in order, rows in order
SizeRowPairs ==
    [m \in 1..(Len(pattern.sizes) * Len(Rows)) |->
        [ size |-> pattern.sizes[((m - 1) \div Len(Rows)) + 1],
          k    |-> ((m - 1) % Len(Rows)) + 1 ]]

\* the warning for row q.k and size q.size
WarningFor(q) ==
    Issue("consistency", q.size, Rows[q.k],
          Msg("consistency", Rows[PrevRow(q.k)].calculated_sts[q.size],
              Rows[q.k].calculated_sts[q.size]),
          Rows[q.k].raw_text, None)

\* the warnings of the pairs for which one is due
WarningsDue(pairs) == [m \in DOMAIN pairs |-> WarningFor(pairs[m])]

AtLine == pc = "parse" /\ i < Len(lines)

\* the first classifier that matches the line, in the order sizes, metadata (notes
\* only while the current section has no rows), cast-on, section heading, repeat
\* reference, row
FirstClassifier(line) ==
    IF line.text = "" THEN "blank"
    ELSE IF line.sizes THEN "sizes"
    ELSE IF line.meta # "" \/ (line.notes /\ RowsBefore = <<>>) THEN "metadata"
    ELSE IF line.co THEN "cast_on"
    ELSE IF line.section # "" THEN "section"
    ELSE IF line.work_until THEN "repeat_ref"
    ELSE IF line.row THEN "row"
    ELSE "none"

\* the metadata slots of a Pattern
Slots(p) == <<p.gauge, p.materials, p.finished_measurements, p.abbreviations, p.notes>>

\* a Pattern without its metadata slots
WithoutSlots(p) ==
    [p EXCEPT !.gauge = "", !.materials = "", !.finished_measurements = "",
              !.abbreviations = "", !.notes = ""]

\* the rows the step appends to the current section
AppendedRows == SubSeq(RowsAfter, Len(RowsBefore) + 1, Len(RowsAfter))

\* the step changes nothing but the rows of the current section (and, where sizes is
\* TRUE, the declared sizes)
OnlyRowsChange(sizes) ==
    /\ current_section' = current_section
    /\ Len(RowsAfter) >= Len(RowsBefore)
    /\ [pattern' EXCEPT !.sizes = IF sizes THEN <<>> ELSE @,
                          !.cast_on_counts = IF sizes THEN EmptyDict ELSE @]
         = [pattern EXCEPT !.sizes = IF sizes THEN <<>> ELSE @,
                           !.cast_on_counts = IF sizes THEN EmptyDict ELSE @,
                           !.sections[current_section].rows = @ \o AppendedRows]

\* the one effect of the classifier on the line
EffectOf(classifier, line) ==
    CASE classifier = "sizes" ->
             /\ pattern' = [pattern EXCEPT !.sizes = line.size_labels]
             /\ current_section' = current_section
      [] classifier = "metadata" ->
             /\ WithoutSlots(pattern') = WithoutSlots(pattern)
             /\ line.text \in Elems(Slots(pattern'))
             /\ current_section' = current_section
      [] classifier = "cast_on" ->
             /\ OnlyRowsChange(TRUE)
             /\ \A k \in DOMAIN AppendedRows :
                    /\ AppendedRows[k].operations = <<>>
                    /\ AppendedRows[k].repeat_blocks = <<>>
                    /\ AppendedRows[k].number \in {0, None}
      [] classifier = "section" ->
             /\ pattern' = [pattern EXCEPT !.sections = Append(@, Section(line.section))]
             /\ current_section' = Len(pattern'.sections)
      [] classifier = "repeat_ref" ->
             /\ OnlyRowsChange(FALSE)
             /\ Len(AppendedRows) = 1
             /\ AppendedRows[1].is_repeat_ref
             /\ AppendedRows[1].number = None
             /\ AppendedRows[1].operations = <<>>
      [] classifier = "row" ->
             /\ OnlyRowsChange(TRUE)
             /\ pattern'.cast_on_counts = pattern.cast_on_counts
             /\ Len(AppendedRows) = 1
             /\ ~AppendedRows[1].is_repeat_ref
             /\ AppendedRows[1].number = line.row_num
             /\ AppendedRows[1].operations = line.flat_ops
             /\ AppendedRows[1].repeat_blocks = line.repeat_blocks
      [] OTHER ->
             /\ pattern' = pattern
             /\ current_section' = current_section

\* C23: every non-blank line is consumed by exactly the first classifier that matches
\* it, in the order sizes, metadata (notes only while the current section has no
\* rows), cast-on, section heading, repeat reference, row, and has that classifier's
\* one effect: a line matching both the cast-on and the row pattern yields no
\* instruction Row, a line matching both work-until and the row pattern yields a
\* repeat-reference Row, and a line matching no classifier changes nothing.
C23_FirstClassifierConsumes ==
    [][AtLine => EffectOf(FirstClassifier(lines[i + 1]), lines[i + 1])]_vars

(***************************************************************************)
(* Aliases                                                                 *)
(***************************************************************************)

\* the operation an instruction text of one alias stands for ("" for other texts):
\* the words of the text are its tokens, re.split cutting at every space
AliasOf(flat) ==
    CASE flat = <<Token("knit", None)>> -> "k"
      [] flat = <<Token("yarn", None), Token("over", None)>> -> "yo"
      [] flat = <<Token("bind", None), Token("off", None)>> -> "bo"
      [] flat = <<Token("cast", None), Token("on", None)>> -> "co"
      [] OTHER -> ""

\* C24: during flat tokenization every alias of the alias table is canonicalized
\* before operation matching, multi-word aliases included: the instruction texts
\* 'yarn over', 'bind off' and 'cast on' each yield exactly one operation (yo, bo, co),
\* as the single-word alias 'knit' yields k.
C24_AliasesCanonicalized ==
    (Returned("parse_row_instructions") /\ AliasOf(arg.args.flat) # "") =>
        /\ Len(ret.flat_ops) = 1
        /\ ret.flat_ops[1].raw = Token(AliasOf(arg.args.flat), None)
        /\ ret.flat_ops[1].op_type = _op_type_from_str(AliasOf(arg.args.flat))
        /\ ret.flat_ops[1].count = 1

(***************************************************************************)
(* Repeats below zero                                                      *)
(***************************************************************************)

\* C25: in evaluating any row the number of repeats applied for a repeat block is
\* never negative, so a block whose net per repeat is <= 0 never raises the row's
\* net change (and with it the ending count), also when the flat operations or an
\* earlier block left remaining_for_repeats below 0.
C25_BlockNeverRaises ==
    [][(/\ pc = "blocks"
        /\ ret.blocks # <<>>
        /\ net_stitches_per_repeat(Head(ret.blocks)) <= 0)
          => ret'.acc.net_change <= ret.acc.net_change]_vars

(***************************************************************************)
(* Mismatch errors and the stored count                                    *)
(***************************************************************************)

\* the ending count of row k under size before it is clamped: ending of line 114
Unclamped(k, size) == StartOf(Rows, k, size) + NetChange(Rows[k], StartOf(Rows, k, size))

C27_CountsNeverNegative ==
    Validated =>
        \A k \in DOMAIN Rows : \A size \in Elems(pattern.sizes) :
            /\ Rows[k].calculated_sts[size] >= 0
            /\ StartOf(Rows, k, size) >= 0

\* a row whose decreases exceed its starting count, stored as 0, and the row after
\* it starting from 0
C27_Witness ==
    /\ Validated
    /\ \E k \in DOMAIN Rows : \E size \in Elems(pattern.sizes) :
          /\ ~EarlyReturn(Rows[k])
          /\ Unclamped(k, size) < 0
          /\ Rows[k].calculated_sts[size] = 0
          /\ k + 1 \in DOMAIN Rows
          /\ StartOf(Rows, k + 1, size) = 0

(***************************************************************************)
(* The declared sizes while rows are parsed                                *)
(***************************************************************************)

\* C28: parsing a row line never changes the pattern's list of declared sizes:
\* pattern.sizes after a row line is the same as before it, for every number of
\* end-of-row asserted counts on that line (fewer than, equal to or more than
\* the number of sizes).
C28_RowLineKeepsSizes ==
    [][(AtLine /\ FirstClassifier(lines[i + 1]) = "row")
          => pattern'.sizes = pattern.sizes]_vars

(***************************************************************************)
(* Falling back to the deterministic parse                                 *)
(***************************************************************************)

\* C29: if enhance_pattern_with_llm raises at any point, the pattern the pipeline
\* goes on to validate is exactly the deterministic parse result: no partial LLM
\* merge (sizes, cast_on_counts, replaced operations, expected_sts, sides, inserted
\* rows or llm_insight warnings) is left in it, and llm_enhanced is reported false.
C29_FallbackIsDeterministic ==
    pc = "fallback" => (pattern = arg.args.pattern /\ ~ret.llm_used)

(***************************************************************************)
(* Consistency warnings and extra cast-ons                                 *)
(***************************************************************************)

\* row k casts on extra stitches: cast_on_extra is set and nonzero
CastsOnExtra(k) == Rows[k].cast_on_extra \notin {None, 0}

\* C30: a consistency warning can only be emitted for a row whose cast_on_extra is
\* set and nonzero: every consistency warning names such a row, and for every other
\* row with no operations, no repeat blocks and no expected count for size S the
\* calculated count for S equals that of the preceding non-repeat-reference row.
C30_WarningsOnlyForExtraCastOn ==
    Validated =>
        /\ \A j \in DOMAIN ConsistencyWarnings :
               \E k \in DOMAIN Rows :
                   /\ CastsOnExtra(k)
                   /\ WarningDue(k, ConsistencyWarnings[j].size)
                   /\ ConsistencyWarnings[j] = WarningFor([k |-> k,
                                                           size |-> ConsistencyWarnings[j].size])
        /\ \A k \in DOMAIN Rows : \A size \in Elems(pattern.sizes) :
               (NothingParsed(k, size) /\ PrevRow(k) # 0 /\ ~CastsOnExtra(k)) =>
                   Rows[k].calculated_sts[size] = Rows[PrevRow(k)].calculated_sts[size]

\* a row that changed the count followed by a row with nothing parsed, no stated
\* count and no extra cast-on: the second row keeps the count of the first and no
\* consistency warning is emitted
C30_Witness ==
    /\ Validated
    /\ Len(Rows) = 2
    /\ ConsistencyWarnings = <<>>
    /\ ~CastsOnExtra(2)
    /\ \E size \in Elems(pattern.sizes) :
          /\ NothingParsed(2, size)
          /\ PrevRow(2) = 1
          /\ Rows[1].calculated_sts[size] # Get(pattern.cast_on_counts, size, 0)
          /\ Rows[2].calculated_sts[size] = Rows[1].calculated_sts[size]

====
